---- MODULE Spec2Model ----
(***************************************************************************)
(* State-machine model of the gpt5 command-line tool: the two CLI commands *)
(* (cli entry point), ChatGPT.initialize / checkSession / query / close    *)
(* and the helpers query relies on (getResponseTimeout,                    *)
(* copyAssistantResponse); ChatGPT.initialize over the profile directory   *)
(* (SpecProfile), ChatGPT.loginInteractive (SpecLogin), and                *)
(* ChatGPT.resolveModelDefinition over respelled names (SpecSelect),       *)
(* selectModel / applyModelSelection step by step (SpecPicker), the query  *)
(* command under each profile (SpecSession), and both commands with the    *)
(* login steps for the termination argument (SpecTerm).  Strings are       *)
(* sequences of one-character strings so that trim, toLowerCase, replace,  *)
(* includes and number formatting are computed, not assumed.  Time is in   *)
(* milliseconds.                                                           *)
(***************************************************************************)
EXTENDS Integers, Sequences, FiniteSets, TLC

(***************************************************************************)
(* Bounds of the model                                                     *)
(***************************************************************************)
\* nominal (on-time) poll waits explored per query before waits are stalled
MaxPolls == 8
\* extra delay of a stalled wait (a timer only guarantees "at least")
Stall == 600000
\* largest assistant-message count the page reports
MaxMsgs == 1
\* nominal clipboard read-back waits explored before waits are stalled
MaxCopyPolls == 1

(***************************************************************************)
(* Program constants                                                       *)
(***************************************************************************)
pollIntervalMs == 2000
requiredStableChecks == 3
LongRunningFloor == 30 * 60 * 1000
CopyRetryWindow == 3000
CopyPollMs == 150
SessionSettleMs == 3000
FillSettleMs == 500
DefaultTimeout == 60000

(***************************************************************************)
(* Strings                                                                 *)
(***************************************************************************)
UpperLetters == <<"A","B","C","D","E","F","G","H","I","J","K","L","M",
                  "N","O","P","Q","R","S","T","U","V","W","X","Y","Z">>
LowerLetters == <<"a","b","c","d","e","f","g","h","i","j","k","l","m",
                  "n","o","p","q","r","s","t","u","v","w","x","y","z">>

\* String.prototype.toLowerCase, one character
ToLowerChar(c) ==
    IF \E i \in 1..26 : UpperLetters[i] = c
    THEN LowerLetters[CHOOSE i \in 1..26 : UpperLetters[i] = c]
    ELSE c

ToLowerCase(s) == [i \in 1..Len(s) |-> ToLowerChar(s[i])]

\* the regular-expression class \s on the characters used here
IsWhitespace(c) == c \in {" ", "\t", "\n"}

\* the class [\s_]
IsSeparator(c) == IsWhitespace(c) \/ c = "_"

RECURSIVE DropSeparators(_)
DropSeparators(s) ==
    IF s = <<>> THEN <<>>
    ELSE IF IsSeparator(Head(s)) THEN DropSeparators(Tail(s))
    ELSE s

\* s.replace(/[\s_]+/g, '-')
RECURSIVE ReplaceSeparators(_)
ReplaceSeparators(s) ==
    IF s = <<>> THEN <<>>
    ELSE IF IsSeparator(Head(s))
         THEN <<"-">> \o ReplaceSeparators(DropSeparators(s))
         ELSE <<Head(s)>> \o ReplaceSeparators(Tail(s))

RECURSIVE TrimStart(_)
TrimStart(s) ==
    IF s = <<>> THEN <<>>
    ELSE IF IsWhitespace(Head(s)) THEN TrimStart(Tail(s))
    ELSE s

RECURSIVE TrimEnd(_)
TrimEnd(s) ==
    IF s = <<>> THEN <<>>
    ELSE IF IsWhitespace(s[Len(s)]) THEN TrimEnd(SubSeq(s, 1, Len(s) - 1))
    ELSE s

\* String.prototype.trim
Trim(s) == TrimEnd(TrimStart(s))

\* String.prototype.includes
Includes(s, t) ==
    \E i \in 1..(Len(s) - Len(t) + 1) : SubSeq(s, i, i + Len(t) - 1) = t

DigitChars == <<"0","1","2","3","4","5","6","7","8","9">>

\* decimal formatting of an integer in a template literal
RECURSIVE NumberToString(_)
NumberToString(n) ==
    IF n < 0 THEN <<"-">> \o NumberToString(0 - n)
    ELSE IF n < 10 THEN <<DigitChars[n + 1]>>
    ELSE NumberToString(n \div 10) \o <<DigitChars[(n % 10) + 1]>>

Max(a, b) == IF a >= b THEN a ELSE b


(***************************************************************************)
(* Values the commands and the page are exercised with                     *)
(***************************************************************************)
\* JavaScript null (a one-token sequence no character string equals)
NullValue == <<"<null>">>

\* JavaScript undefined
Undefined == <<"<undefined>">>

ModelDefault == <<"G","P","T","-","5"," ","P","r","o">>
ModelGpt4o == <<"g","p","t","-","4","o">>

\* <<--model, --timeout>> of the query command runs: the CLI defaults, and a
\* model outside the slow family with a short and with the default timeout
Configs == { <<ModelDefault, DefaultTimeout>>,
             <<ModelGpt4o, 9000>>,
             <<ModelGpt4o, DefaultTimeout>> }

\* model names and timeouts getResponseTimeout is applied to on its own (the
\* --timeout option is parsed with parseInt and not range-checked)
ModelNames ==
    { ModelDefault, ModelGpt4o,
      <<"g","p","t","-","5","-","p","r","o">>,
      <<"G","P","T","5">>,
      <<"g","p","t","_","5">>,
      <<"G","p","t"," ","\t","5","_","T","h","i","n","k","i","n","g">>,
      <<"c","h","a","t","g","p","t","5","-","p","r","o">>,
      <<"g","p","t","-","5","-","i","n","s","t","a","n","t">>,
      <<"o","1","-","p","r","o">>,
      <<"G","P","T","-","4">>,
      <<"G","P","T","-","4"," ","T","u","r","b","o">>,
      <<"g","p","t","-","-","5">>,
      <<"g"," ","p","t","5">>,
      <<"p","r","o">> }

TimeoutValues == {-1, 0, 1800, DefaultTimeout, LongRunningFloor - 1, LongRunningFloor,
                  LongRunningFloor + 1, 2000000}

Prompts == {<<>>, <<"p","i","n","g">>}

TextEmpty == <<>>
TextBlank == <<" ", "\n">>
TextHello == <<"h","e","l","l","o">>
TextPadded == <<" ","r","e","s","p","o","n","s","e","\n">>
TextLong == <<"h","e","l","l","o"," ","y","o">>

\* innerText values the last assistant message is observed with
Texts == {TextEmpty, TextBlank, TextHello, TextPadded, TextLong}

ClipOld == <<"o","l","d">>
ClipCopied == <<"*","h","i","*","\n">>

\* results of navigator.clipboard.readText() as evaluated in the page
ClipReads == {NullValue, <<>>, <<" ">>, ClipOld, ClipCopied}

(***************************************************************************)
(* Error messages (token sequences: fixed text, then formatted values)     *)
(***************************************************************************)
ErrNotInitialized == <<"Browser not initialized">>
ErrEmptyResponse == <<"Empty response received">>
ErrInstall == <<"Unable to install Playwright Chromium browser automatically.">>
ErrDriver == <<"driver error">>
ErrLogin == <<"login error">>
ErrStorageState == <<"Error reading storage state from ", "browser-state.json">>
NoError == <<>>

\* variant: the duration is reported in whole seconds
TimeoutError_Seconds(ms) ==
    <<"Response timeout after ">> \o NumberToString(ms \div 1000) \o <<"s">>

\* new Error(`Response timeout after ${responseTimeout}ms`)
TimeoutError(ms) == <<"Response timeout after ">> \o NumberToString(ms) \o <<"ms">>

(***************************************************************************)
(* ChatGPT.getResponseTimeout                                              *)
(***************************************************************************)
longRunningModels ==
    { <<"g","p","t","-","5">>,
      <<"g","p","t","5">>,
      <<"g","p","t","-","5","-","p","r","o">>,
      <<"g","p","t","5","-","p","r","o">>,
      <<"g","p","t","-","5","-","t","h","i","n","k","i","n","g">>,
      <<"g","p","t","5","-","t","h","i","n","k","i","n","g">> }

normalizedModel(m) == ReplaceSeparators(ToLowerCase(m))

requiresLongTimeout(m) ==
    \E name \in longRunningModels : Includes(normalizedModel(m), name)

\* variant: a slow-family model always gets the floor, whatever was configured
getResponseTimeout_FloorOnly(m, base) ==
    IF requiresLongTimeout(m) THEN LongRunningFloor ELSE base

getResponseTimeout(m, base) ==
    Max(base, IF requiresLongTimeout(m) THEN LongRunningFloor ELSE 0)


(***************************************************************************)
(* ChatGPT.query: the stabilization bookkeeping and the result             *)
(***************************************************************************)
\* variant: a count equal to the baseline is taken for a new message
hasNewMessage_AtLeast(count, initial) == count >= initial

\* the arrival test on a count read after submission
hasNewMessage(count, initial) == count > initial

\* variant: an empty observation is compared like any other
stabilityUpdate_CountsEmpty(currentLength, prevLen, stable) ==
    IF currentLength = prevLen
    THEN [previousLength |-> prevLen, stableCount |-> stable + 1]
    ELSE [previousLength |-> currentLength, stableCount |-> 0]

\* variant: an empty observation leaves the counter and the baseline alone
stabilityUpdate_KeepsOnEmpty(currentLength, prevLen, stable) ==
    IF currentLength = 0
    THEN [previousLength |-> prevLen, stableCount |-> stable]
    ELSE IF currentLength = prevLen
         THEN [previousLength |-> prevLen, stableCount |-> stable + 1]
         ELSE [previousLength |-> currentLength, stableCount |-> 0]

\* one pass of the stabilization loop body over an observed trimmed length
stabilityUpdate(currentLength, prevLen, stable) ==
    IF currentLength = 0
    THEN [previousLength |-> 0, stableCount |-> 0]
    ELSE IF currentLength = prevLen
         THEN [previousLength |-> prevLen, stableCount |-> stable + 1]
         ELSE [previousLength |-> currentLength, stableCount |-> 0]

\* variant: the baseline observation is counted as a stable check
isStable_Two(stable) == stable >= requiredStableChecks - 1

isStable(stable) == stable >= requiredStableChecks

\* variant: the comparison with the deadline is reversed
beforeDeadline_Reversed(t, deadline) == t > deadline

\* the loop condition of both polling loops of query
beforeDeadline(t, deadline) == t < deadline

\* the value copyAssistantResponse returns once its read-back loop ended
copyReturnValue(c) ==
    IF c = NullValue \/ c = <<>> \/ Len(Trim(c)) = 0 THEN NullValue ELSE c

\* the loop exit test of the clipboard read-back
clipboardChanged(c, b) ==
    c # NullValue /\ c # <<>> /\ Len(Trim(c)) > 0 /\ c # b

\* variant: the copied text is returned as read, untrimmed
queryResult_Untrimmed(copiedText, trimmedText) ==
    IF copiedText # NullValue /\ copiedText # <<>> /\ Len(Trim(copiedText)) > 0
    THEN copiedText
    ELSE trimmedText

\* what query returns at finalization
queryResult(copiedText, trimmedText) ==
    IF copiedText # NullValue /\ copiedText # <<>> /\ Len(Trim(copiedText)) > 0
    THEN Trim(copiedText)
    ELSE trimmedText

(***************************************************************************)
(* State                                                                   *)
(***************************************************************************)
VARIABLES
    cmd,              \* CLI command: "login" or "query"
    prompt,           \* the prompt argument
    model,            \* ChatGPT.model
    timeout,          \* ChatGPT.timeout
    pc,               \* position of the (single-threaded) run
    now,              \* Date.now(), ms since process start
    browser,          \* ChatGPT.browser: "null", "open", "closed"
    closeCalls,       \* number of ChatGPT.close() calls made
    exitCode,         \* process exit code, -1 while running
    stdout,           \* response printed, NullValue if none
    stderr,           \* error message printed, NoError if none
    error,            \* error in flight to the catch block
    initialMessages,  \* baseline count, -1 before it is read
    submittedAt,      \* time the prompt was submitted (Enter pressed), -1 before
    responseTimeout,
    responseDeadline,
    previousLength,
    stableCount,
    currentText,      \* innerText of the last observation
    maxSeen,          \* largest count read after submission, -1 if none
    samples,          \* number of text observations made
    scen,             \* samples so far follow Scenario: how many, else -1
    polls,            \* nominal poll waits made
    before,           \* clipboard contents read before the click
    clip,             \* clipboard contents read back last
    copyDeadline,
    copyPolls,
    copied,           \* copyAssistantResponse's return value
    response,         \* query's return value
    deadlineCrossed,  \* stableCount when a wait carried the clock over the deadline, -1 if none did
    profile,          \* ChatGPT.profile
    stateDirExists,   \* fs.existsSync(stateDir)
    stateFile,        \* browser-state.json in stateDir: "absent", "valid", "corrupt"
    chromiumInstalled,\* the Chromium executable exists
    restored,         \* the context was created from the state file
    mkdirCalls,       \* number of fs.mkdirSync calls made
    probe,            \* checkIfLoggedIn after the landing page: "none", "true", "false"
    btnClicks,        \* clicks on the login button
    typedIdentity,    \* the email was filled in
    typedSecret,      \* the password was typed
    url,              \* page.url()
    codeInputs,       \* waitForOtpInputs: "pending", "found", "null"
    otpDeadline,
    otpPolls,         \* nominal poll waits of waitForOtpInputs
    prompts,          \* number of prompt2FA calls
    visibleOtpCount,  \* -1 before it is read
    code,             \* the verification code, whitespace removed
    typed,            \* what was typed into the code inputs: <<box, text>> in order
    warned,           \* the extra-digits warning was logged
    authStart,        \* start of the confirmation loop, -1 before
    authPolls,        \* nominal poll waits of waitForAuthenticatedSession
    hasSessionCookie, \* last poll: "none", "true", "false", "threw"
    domLoggedIn,      \* last poll: "none", "true", "false", "threw"
    loginSuccess,     \* waitForAuthenticatedSession: "pending", "true", "false"
    screenshots,      \* paths of the screenshots captured
    saveCalls,        \* number of saveSession calls
    storedState,      \* contents of browser-state.json: "none", "previous", "current"
    original,         \* the model name as first spelled
    edits,            \* respellings applied to it
    definition,       \* selectModel's definition, Undefined before it is resolved
    uiActions,        \* clicks and key presses made by selectModel
    warnings,         \* messages logged at level warn by selectModel
    label,            \* text of the model-switcher button
    labelBefore,      \* that text when selectModel was called
    calls,            \* selectModel calls begun
    labelRead,         \* text last read by isModelAlreadySelected, NullValue if none
    selected,         \* the entry check of this call: "none", "true", "false"
    confirmed,        \* the last confirmation after a click: "none", "true", "false"
    soft,             \* kinds of soft failure met in this call
    clickLog,         \* this call's attempts in the open menu: <<kind, target, outcome>>
    actionsBefore,    \* uiActions when this call began
    applyIdx,         \* position in the list applyModelSelection is working on
    email,            \* the identity getCredentials returned, Undefined before
    password,         \* the secret getCredentials returned, Undefined before
    credFailure,      \* how the credential provider failed: "none", "lookup", "empty"
    retries,          \* ChatGPT.retries
    page,             \* what page.evaluate sees of the ChatGPT page
    cookies           \* names of the cookies the context holds for chatgpt.com

cliVars == <<cmd, prompt, model, timeout, retries, browser, closeCalls, exitCode, stdout, stderr>>
queryVars == <<initialMessages, submittedAt, responseTimeout, responseDeadline,
               previousLength, stableCount, currentText, maxSeen, samples, scen,
               polls, deadlineCrossed>>
copyVars == <<before, clip, copyDeadline, copyPolls, copied>>
initVars == <<profile, stateDirExists, stateFile, chromiumInstalled, restored, mkdirCalls>>
entryVars == <<probe, btnClicks, typedIdentity, typedSecret, url>>
otpVars == <<codeInputs, otpDeadline, otpPolls, prompts, visibleOtpCount, code, typed, warned>>
authVars == <<authStart, authPolls, hasSessionCookie, domLoggedIn, loginSuccess, screenshots>>
saveVars == <<saveCalls, storedState>>
credVars == <<email, password, credFailure>>
loginVars == <<entryVars, otpVars, authVars, saveVars, credVars>>
pickVars == <<calls, labelRead, selected, confirmed, soft, clickLog, actionsBefore, applyIdx>>
selectVars == <<original, edits, definition, uiActions, warnings, label, labelBefore,
                pickVars>>
siteVars == <<page, cookies>>
auxVars == <<initVars, loginVars, selectVars, siteVars>>
vars == <<cliVars, queryVars, copyVars, pc, now, error, response, auxVars>>

\* the observed lengths of the stabilization example
Scenario == <<0, 5, 5, 5, 8, 8, 8, 8>>

\* options.retries ?? 2
defaultRetries == 2

\* the phrases the two session probes look for in document.body.innerText
PagePhrases == {"New chat", "Search chats", "GPTs", "Pro", "Temporary Chat"}

\* what page.evaluate can see: the user object of __NEXT_DATA__, the composer
\* textarea, the phrases of the body text, and whether the evaluation rejects
Pages == [user : BOOLEAN, composer : BOOLEAN, text : SUBSET PagePhrases, throws : BOOLEAN]

BlankPage == [user |-> FALSE, composer |-> FALSE, text |-> {}, throws |-> FALSE]

sessionCookieNames ==
    { "__Secure-next-auth.session-token", "next-auth.session-token",
      "__Secure-openai-session-token", "openai-session" }

\* cookie names a context may hold for chatgpt.com
CookieNames == {"next-auth.session-token", "openai-session", "cf_clearance"}

\* cookies.some((cookie) => sessionCookieNames.has(cookie.name))
someSessionCookie(jar) == \E name \in jar : name \in sessionCookieNames

\* the evaluation of waitForAuthenticatedSession (domLoggedIn)
confirmationSignal(pg) ==
    LET hasHistorySection == /\ "New chat" \in pg.text
                             /\ ("Search chats" \in pg.text \/ "GPTs" \in pg.text)
        hasProBadge == "Pro" \in pg.text
        hasTemporaryBanner == "Temporary Chat" \in pg.text
    IN \/ pg.user
       \/ pg.composer /\ (hasHistorySection \/ hasProBadge) /\ ~hasTemporaryBanner

\* one poll of waitForAuthenticatedSession on a page that stays as it is: a
\* rejected evaluation leaves the loop through the catch and returns false
confirmsLogin(pg, jar) ==
    IF pg.throws THEN FALSE ELSE someSessionCookie(jar) \/ confirmationSignal(pg)

\* the evaluation of checkIfLoggedIn (hasSession)
hasSession(pg) ==
    LET history == "Search chats" \in pg.text \/ "New chat" \in pg.text
        notTemporary == ~("Temporary Chat" \in pg.text)
    IN pg.user \/ (pg.composer /\ history /\ notTemporary)

\* checkIfLoggedIn: a rejected evaluation is caught and the cookies decide
checkIfLoggedIn(pg, jar) ==
    \/ ~pg.throws /\ hasSession(pg)
    \/ someSessionCookie(jar)

\* no probe of this run looks at the page
IdleSite ==
    /\ page = BlankPage
    /\ cookies = {}

IdleState ==
    /\ now = 0
    /\ browser = "null"
    /\ closeCalls = 0
    /\ exitCode = -1
    /\ stdout = NullValue
    /\ stderr = NoError
    /\ error = NoError
    /\ initialMessages = -1
    /\ submittedAt = -1
    /\ responseTimeout = -1
    /\ responseDeadline = -1
    /\ previousLength = 0
    /\ stableCount = 0
    /\ currentText = TextEmpty
    /\ maxSeen = -1
    /\ samples = 0
    /\ scen = 0
    /\ polls = 0
    /\ before = NullValue
    /\ clip = NullValue
    /\ copyDeadline = -1
    /\ copyPolls = 0
    /\ copied = NullValue
    /\ response = NullValue
    /\ deadlineCrossed = -1

\* the profile directory of a run that does not look at it
IdleProfile ==
    /\ profile = <<"d","e","f","a","u","l","t">>
    /\ stateDirExists = TRUE
    /\ stateFile = "valid"
    /\ chromiumInstalled = TRUE
    /\ restored = FALSE
    /\ mkdirCalls = 0
    /\ storedState = "previous"

\* loginInteractive has not run
IdleLogin ==
    /\ probe = "none"
    /\ btnClicks = 0
    /\ typedIdentity = FALSE
    /\ typedSecret = FALSE
    /\ url = <<"about:blank">>
    /\ codeInputs = "pending"
    /\ otpDeadline = -1
    /\ otpPolls = 0
    /\ prompts = 0
    /\ visibleOtpCount = -1
    /\ code = <<>>
    /\ typed = <<>>
    /\ warned = FALSE
    /\ authStart = -1
    /\ authPolls = 0
    /\ hasSessionCookie = "none"
    /\ domLoggedIn = "none"
    /\ loginSuccess = "pending"
    /\ screenshots = {}
    /\ saveCalls = 0
    /\ email = Undefined
    /\ password = Undefined
    /\ credFailure = "none"

\* no selectModel call has begun
IdlePick ==
    /\ calls = 0
    /\ labelRead = NullValue
    /\ selected = "none"
    /\ confirmed = "none"
    /\ soft = {}
    /\ clickLog = <<>>
    /\ actionsBefore = 0
    /\ applyIdx = 0

\* selectModel has not run
IdleSelect ==
    /\ original = model
    /\ edits = 0
    /\ definition = Undefined
    /\ uiActions = 0
    /\ warnings = <<>>
    /\ label = <<>>
    /\ labelBefore = <<>>
    /\ IdlePick

\* a command line was parsed and the ChatGPT object constructed
Init ==
    /\ cmd \in {"login", "query"}
    /\ prompt \in (IF cmd = "query" THEN Prompts ELSE {<<>>})
    /\ \E cfg \in (IF cmd = "query" THEN Configs
                    ELSE {<<<<"g","p","t","-","5","-","p","r","o">>, DefaultTimeout>>}) :
         model = cfg[1] /\ timeout = cfg[2]
    /\ pc = "start"
    /\ IdleState
    /\ retries = defaultRetries
    /\ IdleSite
    /\ IdleProfile
    /\ IdleLogin
    /\ IdleSelect


(***************************************************************************)
(* Helpers of the actions                                                  *)
(***************************************************************************)
Throw(e) == pc' = "catch" /\ error' = e

\* page.waitForTimeout(ms) inside a polling loop: on time, or stalled
PollWaits == IF polls < MaxPolls THEN {pollIntervalMs, pollIntervalMs + Stall}
             ELSE {pollIntervalMs + Stall}

CopyWaits == IF copyPolls < MaxCopyPolls THEN {CopyPollMs, CopyPollMs + CopyRetryWindow}
             ELSE {CopyPollMs + CopyRetryWindow}

\* variant: close() leaves the browser running
closedBrowser_Leak(b) == b

\* ChatGPT.close(): closes the browser when one was launched
closedBrowser(b) == IF b = "open" THEN "closed" ELSE b

(***************************************************************************)
(* CLI: command actions up to the operation                                *)
(***************************************************************************)
\* query command without a prompt: usage, exit 1
QueryNoPrompt ==
    /\ pc = "start" /\ cmd = "query" /\ prompt = <<>>
    /\ stderr' = <<"prompt is required">>
    /\ exitCode' = 1
    /\ pc' = "exited"
    /\ UNCHANGED <<cmd, prompt, model, timeout, retries, browser, closeCalls, stdout,
                   queryVars, copyVars, now, error, response>>
    /\ UNCHANGED auxVars

\* chatgpt.initialize() as called first in both commands' try blocks
Initialize ==
    /\ pc = "start"
    /\ cmd = "login" \/ prompt # <<>>
    /\ \E outcome \in {"install", "launch", "context", "ok"} :
         CASE outcome = "install" -> browser' = browser /\ Throw(ErrInstall)
           [] outcome = "launch"  -> browser' = browser /\ Throw(ErrDriver)
           [] outcome = "context" -> browser' = "open" /\ Throw(ErrDriver)
           [] outcome = "ok"      ->
                /\ browser' = "open"
                /\ pc' = IF cmd = "login" THEN "login" ELSE "checkSession"
                /\ error' = error
    /\ UNCHANGED <<cmd, prompt, model, timeout, retries, closeCalls, exitCode, stdout, stderr,
                   queryVars, copyVars, now, response>>
    /\ UNCHANGED auxVars

\* chatgpt.loginInteractive() as seen by the login command: returns or throws
LoginInteractive ==
    /\ pc = "login"
    /\ \/ pc' = "close" /\ error' = error
       \/ Throw(ErrLogin)
    /\ UNCHANGED <<cliVars, queryVars, copyVars, now, response>>
    /\ UNCHANGED auxVars

\* chatgpt.checkSession() and the command's test of its result
CheckSession ==
    /\ pc = "checkSession"
    /\ \/ /\ Throw(ErrDriver)
          /\ now' = now
       \/ /\ now' = now + SessionSettleMs
          /\ \E isLoggedIn \in BOOLEAN :
               pc' = IF isLoggedIn THEN "query" ELSE "notLoggedIn"
          /\ error' = error
    /\ UNCHANGED <<cliVars, queryVars, copyVars, response>>
    /\ UNCHANGED auxVars

\* variant: the second line is printed for every profile
namesProfileInHint_Always(p) == TRUE

\* if (options.profile && options.profile !== 'default')
namesProfileInHint(p) == p # <<>> /\ p # <<"d","e","f","a","u","l","t">>

\* what the command prints when the session is not valid
NotLoggedInHint(p) ==
    IF namesProfileInHint(p)
    THEN <<"Not logged in. Please run: gpt5 login",
           "(with profile: gpt5 login --profile ">> \o p \o <<")">>
    ELSE <<"Not logged in. Please run: gpt5 login">>

\* the command's `if (!isLoggedIn)` branch: hint, process.exit(1)
QueryNotLoggedIn ==
    /\ pc = "notLoggedIn"
    /\ stderr' = NotLoggedInHint(profile)
    /\ exitCode' = 1
    /\ pc' = "exited"
    /\ UNCHANGED <<cmd, prompt, model, timeout, retries, browser, closeCalls, stdout,
                   queryVars, copyVars, now, error, response>>
    /\ UNCHANGED auxVars

(***************************************************************************)
(* ChatGPT.query                                                           *)
(***************************************************************************)
\* page check and selectModel()
QuerySelectModel ==
    /\ pc = "query"
    /\ IF browser = "open" THEN pc' = "waitInput" /\ error' = error
       ELSE Throw(ErrNotInitialized)
    /\ UNCHANGED <<cliVars, queryVars, copyVars, now, response>>
    /\ UNCHANGED auxVars

\* waitForSelector(inputSelector)
QueryWaitInput ==
    /\ pc = "waitInput"
    /\ pc' = "baseline"
    /\ UNCHANGED <<cliVars, queryVars, copyVars, now, error, response>>
    /\ UNCHANGED auxVars

\* initialMessages = count of assistant messages
QueryBaseline ==
    /\ pc = "baseline"
    /\ \E count \in 0..MaxMsgs : initialMessages' = count
    /\ pc' = "fill"
    /\ UNCHANGED <<cliVars, submittedAt, responseTimeout, responseDeadline,
                   previousLength, stableCount, currentText, maxSeen, samples, scen,
                   polls, deadlineCrossed, copyVars, now, error, response>>
    /\ UNCHANGED auxVars

\* fill the prompt, settle, press Enter
QuerySubmit ==
    /\ pc = "fill"
    /\ now' = now + FillSettleMs
    /\ submittedAt' = now'
    /\ pc' = "deadline"
    /\ UNCHANGED <<cliVars, initialMessages, responseTimeout, responseDeadline,
                   previousLength, stableCount, currentText, maxSeen, samples, scen,
                   polls, deadlineCrossed, copyVars, error, response>>
    /\ UNCHANGED auxVars

\* responseTimeout and responseDeadline
QueryDeadline ==
    /\ pc = "deadline"
    /\ responseTimeout' = getResponseTimeout(model, timeout)
    /\ responseDeadline' = now + responseTimeout'
    /\ pc' = "arrival"
    /\ UNCHANGED <<cliVars, initialMessages, submittedAt,
                   previousLength, stableCount, currentText, maxSeen, samples, scen,
                   polls, deadlineCrossed, copyVars, now, error, response>>
    /\ UNCHANGED auxVars

\* a driver call of query rejects (selector wait, count, fill, key press, ...)
QueryDriverThrows ==
    /\ \/ pc = "query" /\ browser = "open"
       \/ pc \in {"waitInput", "baseline", "fill", "confirm"}
       \/ pc \in {"arrival", "stabilize"} /\ beforeDeadline(now, responseDeadline)
    /\ Throw(ErrDriver)
    /\ UNCHANGED <<cliVars, queryVars, copyVars, now, response>>
    /\ UNCHANGED auxVars

\* one iteration of the arrival loop
ArrivalPoll ==
    /\ pc = "arrival"
    /\ beforeDeadline(now, responseDeadline)
    /\ \E currentCount \in 0..MaxMsgs :
         /\ maxSeen' = Max(maxSeen, currentCount)
         /\ IF hasNewMessage(currentCount, initialMessages)
            THEN pc' = "confirm" /\ now' = now /\ polls' = polls
            ELSE /\ pc' = pc
                 /\ \E d \in PollWaits :
                      /\ now' = now + d
                      /\ polls' = IF d = pollIntervalMs THEN polls + 1 ELSE polls
    /\ UNCHANGED <<cliVars, initialMessages, submittedAt, responseTimeout, responseDeadline,
                   previousLength, stableCount, currentText, samples, scen,
                   deadlineCrossed, copyVars, error, response>>
    /\ UNCHANGED auxVars

\* the arrival loop's condition fails
ArrivalDeadline ==
    /\ pc = "arrival"
    /\ ~beforeDeadline(now, responseDeadline)
    /\ pc' = "confirm"
    /\ UNCHANGED <<cliVars, queryVars, copyVars, now, error, response>>
    /\ UNCHANGED auxVars

\* confirmedCount and the arrival timeout
ArrivalConfirm ==
    /\ pc = "confirm"
    /\ \E confirmedCount \in 0..MaxMsgs :
         /\ maxSeen' = Max(maxSeen, confirmedCount)
         /\ IF hasNewMessage(confirmedCount, initialMessages)
            THEN pc' = "stabilize" /\ error' = error
            ELSE Throw(TimeoutError(responseTimeout))
    /\ previousLength' = 0
    /\ stableCount' = 0
    /\ UNCHANGED <<cliVars, initialMessages, submittedAt, responseTimeout, responseDeadline,
                   currentText, samples, scen, polls, deadlineCrossed,
                   copyVars, now, response>>
    /\ UNCHANGED auxVars

\* one iteration of the stabilization loop
StabilizePoll ==
    /\ pc = "stabilize"
    /\ beforeDeadline(now, responseDeadline)
    /\ \E d \in PollWaits :
         /\ now' = now + d
         /\ polls' = IF d = pollIntervalMs THEN polls + 1 ELSE polls
    /\ deadlineCrossed' = IF now' >= responseDeadline THEN stableCount ELSE deadlineCrossed
    /\ \E messageCount \in 0..MaxMsgs :
         IF messageCount = 0
         THEN /\ pc' = pc
              /\ UNCHANGED <<previousLength, stableCount, currentText, samples, scen, error>>
         ELSE \E text \in Texts :
                LET currentLength == Len(Trim(text))
                    upd == stabilityUpdate(currentLength, previousLength, stableCount)
                IN /\ currentText' = text
                   /\ samples' = samples + 1
                   /\ scen' = IF scen = samples /\ samples < Len(Scenario)
                                 /\ Scenario[samples + 1] = currentLength
                              THEN samples + 1 ELSE -1
                   /\ previousLength' = upd.previousLength
                   /\ stableCount' = upd.stableCount
                   /\ IF currentLength # 0 /\ isStable(upd.stableCount)
                      THEN IF Len(Trim(text)) = 0
                           THEN Throw(ErrEmptyResponse)
                           ELSE pc' = "copy" /\ error' = error
                      ELSE pc' = pc /\ error' = error
    /\ UNCHANGED <<cliVars, initialMessages, submittedAt, responseTimeout, responseDeadline,
                   maxSeen, copyVars, response>>
    /\ UNCHANGED auxVars

\* variant: at the deadline the text seen so far is returned
StabilizeTimeout_ReturnsPartial ==
    /\ pc = "stabilize"
    /\ ~beforeDeadline(now, responseDeadline)
    /\ response' = Trim(currentText)
    /\ pc' = "print"
    /\ UNCHANGED <<cliVars, queryVars, copyVars, now, error>>
    /\ UNCHANGED auxVars

\* variant: a timeout is followed by a new submission while retries are configured
StabilizeTimeout_Retries ==
    /\ pc = "stabilize"
    /\ ~beforeDeadline(now, responseDeadline)
    /\ IF retries > 0
       THEN pc' = "fill" /\ error' = error
       ELSE Throw(TimeoutError(responseTimeout))
    /\ UNCHANGED <<cliVars, queryVars, copyVars, now, response>>
    /\ UNCHANGED auxVars

\* the stabilization loop's condition fails
StabilizeTimeout ==
    /\ pc = "stabilize"
    /\ ~beforeDeadline(now, responseDeadline)
    /\ Throw(TimeoutError(responseTimeout))
    /\ UNCHANGED <<cliVars, queryVars, copyVars, now, response>>
    /\ UNCHANGED auxVars


(***************************************************************************)
(* ChatGPT.copyAssistantResponse, called by query at finalization          *)
(***************************************************************************)
\* query's return with the value copyAssistantResponse produced
ReturnFromCopy(value) ==
    /\ copied' = value
    /\ response' = queryResult(value, Trim(currentText))
    /\ pc' = "print"

\* hover, locate the copy control, read the clipboard, click
CopyBegin ==
    /\ pc = "copy"
    /\ now' = now + CopyPollMs
    /\ \/ \* scroll rejects, no copy control found, or the click rejects
          /\ ReturnFromCopy(NullValue)
          /\ UNCHANGED <<before, clip, copyDeadline, copyPolls>>
       \/ /\ \E b \in ClipReads : before' = b
          /\ copyDeadline' = now' + CopyRetryWindow
          /\ clip' = NullValue
          /\ pc' = "copyLoop"
          /\ UNCHANGED <<copyPolls, copied, response>>
    /\ UNCHANGED <<cliVars, queryVars, error>>
    /\ UNCHANGED auxVars

\* one iteration of the clipboard read-back loop
CopyPoll ==
    /\ pc = "copyLoop"
    /\ now < copyDeadline
    /\ \E c \in ClipReads :
         /\ clip' = c
         /\ IF clipboardChanged(c, before)
            THEN /\ ReturnFromCopy(copyReturnValue(c))
                 /\ UNCHANGED <<now, copyPolls>>
            ELSE /\ \E d \in CopyWaits :
                      /\ now' = now + d
                      /\ copyPolls' = IF d = CopyPollMs THEN copyPolls + 1 ELSE copyPolls
                 /\ UNCHANGED <<pc, copied, response>>
    /\ UNCHANGED <<cliVars, queryVars, before, copyDeadline, error>>
    /\ UNCHANGED auxVars

\* the retry window ended
CopyWindowEnd ==
    /\ pc = "copyLoop"
    /\ ~(now < copyDeadline)
    /\ ReturnFromCopy(copyReturnValue(clip))
    /\ UNCHANGED <<cliVars, queryVars, before, clip, copyDeadline, copyPolls, now, error>>
    /\ UNCHANGED auxVars

\* a driver call inside the read-back loop rejects: caught, null returned
CopyThrows ==
    /\ pc = "copyLoop"
    /\ now < copyDeadline
    /\ ReturnFromCopy(NullValue)
    /\ UNCHANGED <<cliVars, queryVars, before, clip, copyDeadline, copyPolls, now, error>>
    /\ UNCHANGED auxVars

(***************************************************************************)
(* CLI: after the operation                                                *)
(***************************************************************************)
\* the end of the try block: the query command prints the response; then
\* chatgpt.close() and process.exit(0)
CloseAndExit ==
    /\ pc \in {"print", "close"}
    /\ stdout' = IF pc = "print" THEN response ELSE stdout
    /\ closeCalls' = closeCalls + 1
    /\ \/ /\ browser' = closedBrowser(browser)
          /\ exitCode' = 0
          /\ pc' = "exited"
          /\ error' = error
       \/ /\ browser' = browser
          /\ exitCode' = exitCode
          /\ Throw(ErrDriver)
    /\ UNCHANGED <<cmd, prompt, model, timeout, retries, stderr,
                   queryVars, copyVars, now, response>>
    /\ UNCHANGED auxVars

\* the catch block: print the message, chatgpt.close(), process.exit(1)
CatchError ==
    /\ pc = "catch"
    /\ stderr' = error
    /\ closeCalls' = closeCalls + 1
    /\ browser' = closedBrowser(browser)
    /\ exitCode' = 1
    /\ pc' = "exited"
    /\ UNCHANGED <<cmd, prompt, model, timeout, retries, stdout,
                   queryVars, copyVars, now, error, response>>
    /\ UNCHANGED auxVars

Next ==
    \/ QueryNoPrompt
    \/ Initialize
    \/ LoginInteractive
    \/ CheckSession
    \/ QueryNotLoggedIn
    \/ QuerySelectModel
    \/ QueryWaitInput
    \/ QueryBaseline
    \/ QuerySubmit
    \/ QueryDeadline
    \/ QueryDriverThrows
    \/ ArrivalPoll
    \/ ArrivalDeadline
    \/ ArrivalConfirm
    \/ StabilizePoll
    \/ StabilizeTimeout
    \/ CopyBegin
    \/ CopyPoll
    \/ CopyWindowEnd
    \/ CopyThrows
    \/ CloseAndExit
    \/ CatchError

Spec == Init /\ [][Next]_vars

\* every step the run can take is eventually taken (the event loop runs the
\* continuation of each awaited call)
FairSpec == Spec /\ WF_vars(Next)

(***************************************************************************)
(* getResponseTimeout on its own                                           *)
(***************************************************************************)
InitTimeout ==
    /\ cmd = "query"
    /\ prompt = <<"p","i","n","g">>
    /\ model \in ModelNames
    /\ timeout \in TimeoutValues
    /\ pc = "deadline"
    /\ IdleState
    /\ retries = defaultRetries
    /\ IdleSite
    /\ IdleProfile
    /\ IdleLogin
    /\ IdleSelect

NextTimeout == QueryDeadline

SpecTimeout == InitTimeout /\ [][NextTimeout]_vars


(***************************************************************************)
(* ChatGPT.initialize, step by step, over the profile directory            *)
(***************************************************************************)
Profiles == { <<"d","e","f","a","u","l","t">>, <<"w","o","r","k">>, <<"a","/","b">> }

\* variant: the state file is handed to the context whether it exists or not
usesSavedState_Always(file) == TRUE

\* if (fs.existsSync(statePath)) contextOptions.storageState = statePath
usesSavedState(file) == file # "absent"

\* browser.newContext({ storageState: path }) reads and parses the file
storageStateReadable(file) == file = "valid"

InitProfile ==
    /\ cmd \in {"login", "query"}
    /\ prompt = (IF cmd = "query" THEN <<"p","i","n","g">> ELSE <<>>)
    /\ model = ModelDefault
    /\ timeout = DefaultTimeout
    /\ pc = "mkdir"
    /\ IdleState
    /\ retries = defaultRetries
    /\ IdleSite
    /\ profile \in Profiles
    /\ stateDirExists \in BOOLEAN
    /\ stateFile \in (IF stateDirExists THEN {"absent", "valid", "corrupt"} ELSE {"absent"})
    /\ chromiumInstalled \in BOOLEAN
    /\ restored = FALSE
    /\ mkdirCalls = 0
    /\ storedState = (IF stateFile = "absent" THEN "none" ELSE "previous")
    /\ IdleLogin
    /\ IdleSelect

\* if (!fs.existsSync(stateDir)) fs.mkdirSync(stateDir, { recursive: true })
EnsureStateDir ==
    /\ pc = "mkdir"
    /\ IF stateDirExists
       THEN UNCHANGED <<stateDirExists, mkdirCalls>>
       ELSE stateDirExists' = TRUE /\ mkdirCalls' = mkdirCalls + 1
    /\ pc' = "install"
    /\ UNCHANGED <<cliVars, queryVars, copyVars, now, error, response,
                   profile, stateFile, chromiumInstalled, restored, loginVars,
                   selectVars, siteVars>>

\* ensureBrowserInstalled: found, installed now, or the installation fails
EnsureBrowserInstalled ==
    /\ pc = "install"
    /\ IF chromiumInstalled
       THEN pc' = "launch" /\ UNCHANGED <<chromiumInstalled, error>>
       ELSE \/ chromiumInstalled' = TRUE /\ pc' = "launch" /\ error' = error
            \/ chromiumInstalled' = FALSE /\ Throw(ErrInstall)
    /\ UNCHANGED <<cliVars, queryVars, copyVars, now, response,
                   profile, stateDirExists, stateFile, restored, mkdirCalls, loginVars,
                   selectVars, siteVars>>

\* chromium.launch(launchOptions): the error is logged and rethrown
LaunchBrowser ==
    /\ pc = "launch"
    /\ \/ browser' = "open" /\ pc' = "context" /\ error' = error
       \/ browser' = browser /\ Throw(ErrDriver)
    /\ UNCHANGED <<cmd, prompt, model, timeout, retries, closeCalls, exitCode, stdout, stderr,
                   queryVars, copyVars, now, response, initVars, loginVars, selectVars, siteVars>>

\* the state file is looked up and browser.newContext is awaited
NewContext ==
    /\ pc = "context"
    /\ LET useState == usesSavedState(stateFile)
       IN IF useState /\ ~storageStateReadable(stateFile)
          THEN restored' = restored /\ Throw(ErrStorageState)
          ELSE \/ restored' = useState /\ pc' = "page" /\ error' = error
               \/ restored' = restored /\ Throw(ErrDriver)
    /\ UNCHANGED <<cliVars, queryVars, copyVars, now, response,
                   profile, stateDirExists, stateFile, chromiumInstalled, mkdirCalls, loginVars,
                   selectVars, siteVars>>

\* context.newPage() and page.addInitScript
NewPage ==
    /\ pc = "page"
    /\ \/ pc' = "initialized" /\ error' = error
       \/ Throw(ErrDriver)
    /\ UNCHANGED <<cliVars, queryVars, copyVars, now, response, initVars, loginVars, selectVars, siteVars>>

NextProfile ==
    \/ EnsureStateDir
    \/ EnsureBrowserInstalled
    \/ LaunchBrowser
    \/ NewContext
    \/ NewPage
    \/ CatchError

SpecProfile == InitProfile /\ [][NextProfile]_vars

(***************************************************************************)
(* ChatGPT.loginInteractive, step by step                                  *)
(***************************************************************************)
\* nominal poll waits of waitForOtpInputs explored before waits are stalled
MaxOtpPolls == 2
\* nominal poll waits of waitForAuthenticatedSession explored likewise
MaxAuthPolls == 2
\* largest number of code inputs the page shows
MaxBoxes == 3
\* extra delay of a stalled wait during login
LoginStall == 100000

NavSettleMs == 2000
LoginClickSettleMs == 2000
EmailFillMs == 500
ContinueSettleMs == 3000
PasswordStepMs == 500
SubmitSettleMs == 3000
OtpPollMs == 500
OtpMaxWaitMs == 45000
TriggerSettleMs == 500
OtpFocusMs == 200
OtpDigitMs == 40
OtpSettleMs == 500
OtpSubmitSettleMs == 5000
AuthPollMs == 1000
AuthMaxWaitMs == 90000

UrlHome == <<"https://chatgpt.com/">>
UrlAuth == <<"https://auth.openai.com/log-in">>
Urls == {UrlHome, UrlAuth}

ShotAfterPassword == <<"/tmp/after-password-submit.png">>
ShotLoginFailed == <<"/tmp/login-failed.png">>

ErrCredentials == <<"Failed to read credentials from 1Password.">>
ErrEmptyCode == <<"Verification code was empty">>
ErrLoginFailed(u) ==
    <<"Login failed - could not find chat interface. URL: ">> \o u
        \o <<". Screenshot: ">> \o ShotLoginFailed

\* what the operator may type at the verification prompt
Answers ==
    { <<>>, <<" ">>, <<"7">>, <<"1","2">>, <<"1"," ","2","3">>,
      <<" ","4","5","6","7"," ">>, <<"8","9","0","1","2">> }

NotWhitespace(c) == ~IsWhitespace(c)

\* code.replace(/\s+/g, '')
removeWhitespace(s) == SelectSeq(s, NotWhitespace)

Min(a, b) == IF a < b THEN a ELSE b

\* variant: the probe's result is not acted upon
skipsCredentialEntry_Never(isLoggedIn) == FALSE

\* variant: the session is saved whatever the probe answered
skipsCredentialEntry_Always(isLoggedIn) == TRUE

\* if (isLoggedIn) { saveSession; return }
skipsCredentialEntry(isLoggedIn) == isLoggedIn

\* variant: the operator is asked for a code in any case
promptsForCode_Always(inputs) == TRUE

\* if (codeInputs) { ... prompt2FA ... }
promptsForCode(inputs) == inputs = "found"

\* Math.min(digits.length, visibleOtpCount)
maxDigits(d, n) == Min(d, n)

\* variant: the warning is logged when the code fills the boxes exactly, too
warnsExtraDigits_AtLeast(d, n) == d >= n

\* if (digits.length > visibleOtpCount) log(..., 'warn')
warnsExtraDigits(d, n) == d > n

\* one poll of waitForAuthenticatedSession: a rejected read is caught outside
\* the loop and leads to return false; either signal ends the loop with true
authPollResult(cookie, dom) ==
    IF cookie = "threw" \/ dom = "threw" THEN "false"
    ELSE IF cookie = "true" \/ dom = "true" THEN "true"
    ELSE "pending"

\* variant: saveSession leaves the stored state as it was
savedStateAfter_Keep(stored) == stored

\* context.storageState({ path: statePath })
savedStateAfter(stored) == "current"

OtpWaits == IF otpPolls < MaxOtpPolls THEN {OtpPollMs, OtpPollMs + LoginStall}
            ELSE {OtpPollMs + LoginStall}

AuthWaits == IF authPolls < MaxAuthPolls THEN {AuthPollMs, AuthPollMs + LoginStall}
             ELSE {AuthPollMs + LoginStall}

nonLoginVars == <<cliVars, queryVars, copyVars, response, selectVars, siteVars>>

\* initialize has returned and the login command calls loginInteractive
InitLogin ==
    /\ cmd = "login"
    /\ prompt = <<>>
    /\ model = <<"g","p","t","-","5","-","p","r","o">>
    /\ timeout = DefaultTimeout
    /\ pc = "creds"
    /\ IdleState
    /\ retries = defaultRetries
    /\ IdleSite
    /\ IdleLogin
    /\ profile \in Profiles
    /\ stateDirExists = TRUE
    /\ stateFile \in {"absent", "valid"}
    /\ storedState = (IF stateFile = "absent" THEN "none" ELSE "previous")
    /\ restored = (stateFile = "valid")
    /\ chromiumInstalled = TRUE
    /\ mkdirCalls = 0
    /\ IdleSelect

\* execSync(`op read ...`) threw: the item is missing, op is not signed in
OpFails == <<"<op read failed>">>

\* what `op read` answers for the identity and for the secret
OpOutputs ==
    { OpFails, <<>>, <<"\n">>, <<"\r","\n">>,
      <<"u","@","x">>, <<"u","@","x","\n">>, <<"u","@","x","\r","\n">> }

\* value.replace(/\r?\n$/, '')
stripTrailingNewline(value) ==
    IF Len(value) >= 2 /\ value[Len(value) - 1] = "\r" /\ value[Len(value)] = "\n"
    THEN SubSeq(value, 1, Len(value) - 2)
    ELSE IF Len(value) >= 1 /\ value[Len(value)] = "\n"
         THEN SubSeq(value, 1, Len(value) - 1)
         ELSE value

\* variant: only a failed lookup is an error
credentialsFail_LookupOnly(emailOut, passwordOut) ==
    emailOut = OpFails \/ passwordOut = OpFails

\* getCredentials throws: a lookup threw, or `!email || !password`
credentialsFail(emailOut, passwordOut) ==
    \/ emailOut = OpFails
    \/ passwordOut = OpFails
    \/ stripTrailingNewline(emailOut) = <<>>
    \/ stripTrailingNewline(passwordOut) = <<>>

\* how the provider's answers fall short, if they do
providerFailure(emailOut, passwordOut) ==
    IF OpFails \in {emailOut, passwordOut} THEN "lookup"
    ELSE IF Len(stripTrailingNewline(emailOut)) = 0 \/ Len(stripTrailingNewline(passwordOut)) = 0
         THEN "empty"
         ELSE "none"

\* getCredentials(): the credentials are read before the page is loaded
LoginCredentials ==
    /\ pc = "creds"
    /\ \E emailOut \in OpOutputs, passwordOut \in OpOutputs :
         /\ credFailure' = providerFailure(emailOut, passwordOut)
         /\ IF credentialsFail(emailOut, passwordOut)
            THEN /\ Throw(ErrCredentials)
                 /\ UNCHANGED <<email, password>>
            ELSE /\ email' = stripTrailingNewline(emailOut)
                 /\ password' = stripTrailingNewline(passwordOut)
                 /\ pc' = "goto"
                 /\ error' = error
    /\ UNCHANGED <<nonLoginVars, now, initVars, entryVars, otpVars, authVars, saveVars,
                   selectVars>>

\* page.goto('https://chatgpt.com/') and the settle wait
LoginNavigate ==
    /\ pc = "goto"
    /\ url' = UrlHome
    /\ now' = now + NavSettleMs
    /\ pc' = "probe"
    /\ UNCHANGED <<nonLoginVars, credVars, error, initVars, probe, btnClicks, typedIdentity,
                   typedSecret, otpVars, authVars, saveVars>>

\* checkIfLoggedIn() and the branch on its result
LoginProbe ==
    /\ pc = "probe"
    /\ \E isLoggedIn \in BOOLEAN :
         /\ probe' = IF isLoggedIn THEN "true" ELSE "false"
         /\ pc' = IF skipsCredentialEntry(isLoggedIn) THEN "save" ELSE "clickLogin"
    /\ UNCHANGED <<nonLoginVars, credVars, now, error, initVars, btnClicks, typedIdentity,
                   typedSecret, url, otpVars, authVars, saveVars>>

\* click the login button
LoginClickButton ==
    /\ pc = "clickLogin"
    /\ btnClicks' = btnClicks + 1
    /\ url' \in Urls
    /\ now' = now + LoginClickSettleMs
    /\ pc' = "email"
    /\ UNCHANGED <<nonLoginVars, credVars, error, initVars, probe, typedIdentity,
                   typedSecret, otpVars, authVars, saveVars>>

\* fill the email, click Continue
LoginEnterEmail ==
    /\ pc = "email"
    /\ typedIdentity' = TRUE
    /\ now' = now + EmailFillMs + ContinueSettleMs
    /\ pc' = "password"
    /\ UNCHANGED <<nonLoginVars, credVars, error, initVars, probe, btnClicks,
                   typedSecret, url, otpVars, authVars, saveVars>>

\* type the password, submit it (button or Enter), take the screenshot, and
\* enter waitForOtpInputs
LoginEnterPassword ==
    /\ pc = "password"
    /\ typedSecret' = TRUE
    /\ now' = now + 4 * PasswordStepMs + SubmitSettleMs
    /\ screenshots' = screenshots \cup {ShotAfterPassword}
    /\ otpDeadline' = now' + OtpMaxWaitMs
    /\ pc' = "otpWait"
    /\ UNCHANGED <<nonLoginVars, credVars, error, initVars, probe, btnClicks, typedIdentity, url,
                   codeInputs, otpPolls, prompts, visibleOtpCount, code, typed, warned,
                   authStart, authPolls, hasSessionCookie, domLoggedIn, loginSuccess,
                   saveVars>>

\* one iteration of waitForOtpInputs: inputs found, or a trigger is tried
\* and the poll interval is waited
OtpPoll ==
    /\ pc = "otpWait"
    /\ now < otpDeadline
    /\ \/ /\ codeInputs' = "found"
          /\ pc' = IF promptsForCode("found") THEN "otpPrompt" ELSE "authWait"
          /\ UNCHANGED <<now, otpPolls>>
       \/ /\ codeInputs' = codeInputs
          /\ pc' = pc
          /\ \E d \in OtpWaits, triggered \in BOOLEAN :
               /\ now' = now + d + (IF triggered THEN TriggerSettleMs ELSE 0)
               /\ otpPolls' = IF d = OtpPollMs THEN otpPolls + 1 ELSE otpPolls
    /\ UNCHANGED <<nonLoginVars, credVars, error, initVars, entryVars, otpDeadline, prompts,
                   visibleOtpCount, code, typed, warned, authVars, saveVars>>

\* the loop test of waitForOtpInputs fails: return null
OtpDeadline ==
    /\ pc = "otpWait"
    /\ ~(now < otpDeadline)
    /\ codeInputs' = "null"
    /\ pc' = IF promptsForCode("null") THEN "otpPrompt" ELSE "authWait"
    /\ UNCHANGED <<nonLoginVars, credVars, now, error, initVars, entryVars, otpDeadline, otpPolls,
                   prompts, visibleOtpCount, code, typed, warned, authVars, saveVars>>

\* codeInputs.count(), prompt2FA(), whitespace removal, the empty-code test
OtpPrompt ==
    /\ pc = "otpPrompt"
    /\ prompts' = prompts + 1
    /\ \E n \in 0..MaxBoxes, answer \in Answers :
         /\ visibleOtpCount' = n
         /\ code' = removeWhitespace(Trim(answer))
    /\ IF code' = <<>>
       THEN Throw(ErrEmptyCode)
       ELSE pc' = "otpType" /\ error' = error
    /\ UNCHANGED <<nonLoginVars, credVars, now, initVars, entryVars, codeInputs, otpDeadline,
                   otpPolls, typed, warned, authVars, saveVars>>

\* focus the first input; one input or none counted: the code is typed there
OtpTypeSingle ==
    /\ pc = "otpType"
    /\ visibleOtpCount <= 1
    /\ typed' = Append(typed, <<0, code>>)
    /\ now' = now + OtpFocusMs
    /\ pc' = "otpSubmit"
    /\ UNCHANGED <<nonLoginVars, credVars, error, initVars, entryVars, codeInputs, otpDeadline,
                   otpPolls, prompts, visibleOtpCount, code, warned, authVars, saveVars>>

\* one iteration of the digit loop: digit i goes to box i
OtpTypeDigit ==
    /\ pc = "otpType"
    /\ visibleOtpCount > 1
    /\ Len(typed) < maxDigits(Len(code), visibleOtpCount)
    /\ typed' = Append(typed, <<Len(typed), <<code[Len(typed) + 1]>>>>)
    /\ now' = now + (IF typed = <<>> THEN OtpFocusMs ELSE 0) + OtpDigitMs
    /\ pc' = pc
    /\ UNCHANGED <<nonLoginVars, credVars, error, initVars, entryVars, codeInputs, otpDeadline,
                   otpPolls, prompts, visibleOtpCount, code, warned, authVars, saveVars>>

\* the digit loop ends; the warning about extra digits
OtpTypeEnd ==
    /\ pc = "otpType"
    /\ visibleOtpCount > 1
    /\ ~(Len(typed) < maxDigits(Len(code), visibleOtpCount))
    /\ warned' = warnsExtraDigits(Len(code), visibleOtpCount)
    /\ pc' = "otpSubmit"
    /\ UNCHANGED <<nonLoginVars, credVars, now, error, initVars, entryVars, codeInputs, otpDeadline,
                   otpPolls, prompts, visibleOtpCount, code, typed, authVars, saveVars>>

\* submit the code: a visible submit button is clicked or Enter is pressed
OtpSubmit ==
    /\ pc = "otpSubmit"
    /\ now' = now + OtpSettleMs + OtpSubmitSettleMs
    /\ pc' = "authWait"
    /\ UNCHANGED <<nonLoginVars, credVars, error, initVars, loginVars, selectVars>>

\* waitForAuthenticatedSession: waitForURL (at once, or its timeout elapses),
\* then start = Date.now()
AuthBegin ==
    /\ pc = "authWait"
    /\ url' \in Urls
    /\ \E d \in {0, AuthMaxWaitMs} : now' = now + d
    /\ authStart' = now'
    /\ pc' = "authPoll"
    /\ UNCHANGED <<nonLoginVars, credVars, error, initVars, probe, btnClicks, typedIdentity,
                   typedSecret, otpVars, authPolls, hasSessionCookie, domLoggedIn,
                   loginSuccess, screenshots, saveVars>>

\* one iteration of the confirmation loop: the cookie read, the in-page
\* read, the test, the wait
AuthPoll ==
    /\ pc = "authPoll"
    /\ now - authStart < AuthMaxWaitMs
    /\ \E cookie \in {"true", "false", "threw"} :
       \E dom \in (IF cookie = "threw" THEN {"none"} ELSE {"true", "false", "threw"}) :
         /\ hasSessionCookie' = cookie
         /\ domLoggedIn' = dom
         /\ loginSuccess' = authPollResult(cookie, dom)
    /\ CASE loginSuccess' = "true"  -> pc' = "save" /\ UNCHANGED <<now, authPolls>>
         [] loginSuccess' = "false" -> pc' = "failShot" /\ UNCHANGED <<now, authPolls>>
         [] OTHER ->
              /\ pc' = pc
              /\ \E d \in AuthWaits :
                   /\ now' = now + d
                   /\ authPolls' = IF d = AuthPollMs THEN authPolls + 1 ELSE authPolls
    /\ UNCHANGED <<nonLoginVars, credVars, error, initVars, entryVars, otpVars, authStart,
                   screenshots, saveVars>>

\* variant: the confirmation loop is not left when its bound has passed
AuthTimeout_KeepsWaiting ==
    /\ pc = "authPoll"
    /\ ~(now - authStart < AuthMaxWaitMs)
    /\ loginSuccess' = "false"
    /\ pc' = pc
    /\ UNCHANGED <<nonLoginVars, credVars, now, error, initVars, entryVars, otpVars, authStart,
                   authPolls, hasSessionCookie, domLoggedIn, screenshots, saveVars>>

\* the loop test of waitForAuthenticatedSession fails: return false
AuthTimeout ==
    /\ pc = "authPoll"
    /\ ~(now - authStart < AuthMaxWaitMs)
    /\ loginSuccess' = "false"
    /\ pc' = "failShot"
    /\ UNCHANGED <<nonLoginVars, credVars, now, error, initVars, entryVars, otpVars, authStart,
                   authPolls, hasSessionCookie, domLoggedIn, screenshots, saveVars>>

\* saveSession() and the return of loginInteractive
LoginSaveSession ==
    /\ pc = "save"
    /\ saveCalls' = saveCalls + 1
    /\ storedState' = savedStateAfter(storedState)
    /\ stateFile' = "valid"
    /\ pc' = "close"
    /\ UNCHANGED <<nonLoginVars, credVars, now, error, profile, stateDirExists, chromiumInstalled,
                   restored, mkdirCalls, entryVars, otpVars, authVars>>

\* the failure screenshot and the error
LoginFailed ==
    /\ pc = "failShot"
    /\ screenshots' = screenshots \cup {ShotLoginFailed}
    /\ Throw(ErrLoginFailed(url))
    /\ UNCHANGED <<nonLoginVars, credVars, now, initVars, entryVars, otpVars, authStart, authPolls,
                   hasSessionCookie, domLoggedIn, loginSuccess, saveVars>>

\* a driver call of loginInteractive rejects (navigation, click, fill,
\* screenshot, storageState, ...)
LoginDriverThrows ==
    /\ pc \in {"goto", "probe", "clickLogin", "email", "password", "otpType",
               "otpSubmit", "save", "failShot"}
    /\ Throw(ErrDriver)
    /\ UNCHANGED <<nonLoginVars, credVars, now, initVars, loginVars, selectVars>>

NextLogin ==
    \/ LoginCredentials
    \/ LoginNavigate
    \/ LoginProbe
    \/ LoginClickButton
    \/ LoginEnterEmail
    \/ LoginEnterPassword
    \/ OtpPoll
    \/ OtpDeadline
    \/ OtpPrompt
    \/ OtpTypeSingle
    \/ OtpTypeDigit
    \/ OtpTypeEnd
    \/ OtpSubmit
    \/ AuthBegin
    \/ AuthPoll
    \/ AuthTimeout
    \/ LoginSaveSession
    \/ LoginFailed
    \/ LoginDriverThrows
    \/ CloseAndExit
    \/ CatchError

SpecLogin == InitLogin /\ [][NextLogin]_vars


(***************************************************************************)
(* ChatGPT.resolveModelDefinition and ChatGPT.selectModel                  *)
(***************************************************************************)
\* respellings applied to a model name
MaxEdits == 2

SelectSettleMs == 1200
PreStepSettleMs == 250

\* buildModelDefinitions: <<key, displayName, verifyTokens, optionTestIds,
\* fallbackTexts, preSteps (their testIds)>>
CatalogEntries ==
    {
      <<<<"g","p","t","-","5">>,
        <<"G","P","T","-","5"," ","A","u","t","o">>,
        <<<<"c","h","a","t","g","p","t"," ","5">>, <<"g","p","t","-","5">>>>,
        <<"model-switcher-gpt-5">>, <<"GPT-5", "Auto">>, <<>>>>,
      <<<<"g","p","t","-","5","-","a","u","t","o">>,
        <<"G","P","T","-","5"," ","A","u","t","o">>,
        <<<<"c","h","a","t","g","p","t"," ","5">>, <<"g","p","t","-","5">>>>,
        <<"model-switcher-gpt-5">>, <<"GPT-5", "Auto">>, <<>>>>,
      <<<<"g","p","t","-","5","-","i","n","s","t","a","n","t">>,
        <<"G","P","T","-","5"," ","I","n","s","t","a","n","t">>,
        <<<<"i","n","s","t","a","n","t">>>>,
        <<"model-switcher-gpt-5-instant">>, <<"Instant">>, <<>>>>,
      <<<<"g","p","t","-","5","-","t","h","i","n","k","i","n","g">>,
        <<"G","P","T","-","5"," ","T","h","i","n","k","i","n","g">>,
        <<<<"t","h","i","n","k","i","n","g">>>>,
        <<"model-switcher-gpt-5-thinking">>, <<"Thinking">>, <<>>>>,
      <<<<"g","p","t","-","5","-","p","r","o">>,
        <<"G","P","T","-","5"," ","P","r","o">>,
        <<<<"p","r","o">>>>,
        <<"model-switcher-gpt-5-pro">>, <<"Pro">>, <<>>>>,
      <<<<"g","p","t","-","4","o">>,
        <<"G","P","T","-","4","o">>,
        <<<<"g","p","t","-","4","o">>>>,
        <<"model-switcher-gpt-4o">>, <<"GPT-4o">>, <<"Legacy models-submenu">>>>,
      <<<<"g","p","t","-","4","o","-","m","i","n","i">>,
        <<"G","P","T","-","4","o"," ","m","i","n","i">>,
        <<<<"g","p","t","-","4","o"," ","m","i","n","i">>, <<"m","i","n","i">>>>,
        <<"model-switcher-gpt-4o-mini">>, <<"GPT-4o mini">>, <<"Legacy models-submenu">>>>
    }

entryKey(e) == e[1]
displayName(e) == e[2]
verifyTokens(e) == e[3]
optionTestIds(e) == e[4]
fallbackTexts(e) == e[5]
preSteps(e) == e[6]

\* the object literal of buildModelDefinitions: <<property name, key field
\* of the entry written under it>>
catalogProperties ==
    { <<<<"g","p","t","-","5">>, <<"g","p","t","-","5">>>>,
      <<<<"g","p","t","-","5","-","a","u","t","o">>, <<"g","p","t","-","5","-","a","u","t","o">>>>,
      <<<<"g","p","t","-","5","-","i","n","s","t","a","n","t">>, <<"g","p","t","-","5","-","i","n","s","t","a","n","t">>>>,
      <<<<"g","p","t","-","5","-","t","h","i","n","k","i","n","g">>, <<"g","p","t","-","5","-","t","h","i","n","k","i","n","g">>>>,
      <<<<"g","p","t","-","5","-","p","r","o">>, <<"g","p","t","-","5","-","p","r","o">>>>,
      <<<<"g","p","t","-","4","o">>, <<"g","p","t","-","4","o">>>>,
      <<<<"g","p","t","-","4","o","-","m","i","n","i">>, <<"g","p","t","-","4","o","-","m","i","n","i">>>> }

ModelKeys == { p[1] : p \in catalogProperties }

\* this.modelDefinitions[key], for a key of the catalog
modelDefinitions(key) ==
    LET p == CHOOSE q \in catalogProperties : q[1] = key
    IN CHOOSE e \in CatalogEntries : entryKey(e) = p[2]

\* variant: an alias whose target is no key of the catalog
aliasMap_DanglingTarget ==
    { <<<<"g","p","t","5">>, <<"g","p","t","-","5","-","t","u","r","b","o">>>>,
      <<<<"g","p","t","-","4">>, <<"g","p","t","-","4","o">>>> }

\* the alias table of resolveModelDefinition: <<alias, key>>
aliasMap ==
    {
      <<<<"c","h","a","t","g","p","t","-","5">>, <<"g","p","t","-","5">>>>,
      <<<<"g","p","t","5">>, <<"g","p","t","-","5">>>>,
      <<<<"g","p","t","5","-","a","u","t","o">>, <<"g","p","t","-","5">>>>,
      <<<<"g","p","t","5","-","p","r","o">>, <<"g","p","t","-","5","-","p","r","o">>>>,
      <<<<"g","p","t","5","-","i","n","s","t","a","n","t">>, <<"g","p","t","-","5","-","i","n","s","t","a","n","t">>>>,
      <<<<"g","p","t","5","-","t","h","i","n","k","i","n","g">>, <<"g","p","t","-","5","-","t","h","i","n","k","i","n","g">>>>,
      <<<<"g","p","t","-","5","a","u","t","o">>, <<"g","p","t","-","5">>>>,
      <<<<"g","p","t","-","5","p","r","o">>, <<"g","p","t","-","5","-","p","r","o">>>>,
      <<<<"g","p","t","-","5","i","n","s","t","a","n","t">>, <<"g","p","t","-","5","-","i","n","s","t","a","n","t">>>>,
      <<<<"g","p","t","-","5","t","h","i","n","k","i","n","g">>, <<"g","p","t","-","5","-","t","h","i","n","k","i","n","g">>>>,
      <<<<"g","p","t","-","4">>, <<"g","p","t","-","4","o">>>>,
      <<<<"g","p","t","4">>, <<"g","p","t","-","4","o">>>>,
      <<<<"g","p","t","4","o">>, <<"g","p","t","-","4","o">>>>,
      <<<<"g","p","t","4","o","m","i","n","i">>, <<"g","p","t","-","4","o","-","m","i","n","i">>>>,
      <<<<"g","p","t","-","4","o","m","i","n","i">>, <<"g","p","t","-","4","o","-","m","i","n","i">>>>,
      <<<<"g","p","t","-","4","o","-","m","i","n","i">>, <<"g","p","t","-","4","o","-","m","i","n","i">>>>,
      <<<<"g","p","t","-","4","o","-","m","i","n","i","-","h","i","g","h">>, <<"g","p","t","-","4","o","-","m","i","n","i">>>>
    }

AliasKeys == { a[1] : a \in aliasMap }

\* Object.prototype.constructor, which a plain object literal inherits
ObjectConstructor == <<"<function Object>">>

\* aliasMap[normalized]: an own property, an inherited one, or undefined
aliasLookup(normalized) ==
    IF normalized \in AliasKeys
    THEN (CHOOSE a \in aliasMap : a[1] = normalized)[2]
    ELSE IF normalized = <<"c","o","n","s","t","r","u","c","t","o","r">>
         THEN ObjectConstructor
         ELSE Undefined

\* variant: letter case is kept
normalizeName_KeepCase(modelName) == ReplaceSeparators(Trim(modelName))

\* modelName.trim().toLowerCase().replace(/[\s_]+/g, '-')
normalizeName(modelName) == ReplaceSeparators(ToLowerCase(Trim(modelName)))

\* variant: a key outside the catalog falls back to the first entry
catalogLookup_Default(key) ==
    IF key \in ModelKeys THEN modelDefinitions(key)
    ELSE modelDefinitions(<<"g","p","t","-","5">>)

\* this.modelDefinitions[key] ?? null
catalogLookup(key) ==
    IF key \in ModelKeys THEN modelDefinitions(key) ELSE NullValue

resolveModelDefinition(modelName) ==
    LET normalized == normalizeName(modelName)
        aliased == aliasLookup(normalized)
        key == IF aliased # Undefined THEN aliased ELSE normalized
    IN catalogLookup(key)

\* variant: the label is compared as it is read, without lowercasing
isModelAlreadySelected_CaseSensitive(labelRaw, def) ==
    /\ labelRaw # NullValue
    /\ labelRaw # <<>>
    /\ \E i \in 1..Len(verifyTokens(def)) :
         Includes(labelRaw, verifyTokens(def)[i])

\* isModelAlreadySelected: some verifyToken occurs in the lowercased label
isModelAlreadySelected(labelRaw, def) ==
    /\ labelRaw # NullValue
    /\ labelRaw # <<>>
    /\ \E i \in 1..Len(verifyTokens(def)) :
         Includes(ToLowerCase(labelRaw), verifyTokens(def)[i])

WarnNotRecognized(modelName) ==
    <<"Model \"">> \o modelName \o <<"\" is not recognized; skipping model switch">>
WarnPickerFailed == <<"Failed to open model picker: ">>
WarnOptionNotFound(modelName) == <<"Could not find model option for ">> \o modelName

\* names the --model option is given: catalog keys, aliases, display names,
\* and names that are neither
SelectNames ==
    ModelKeys \cup AliasKeys \cup
    { <<"G","P","T","-","5"," ","P","r","o">>,
      <<"G","P","T","-","5"," ","A","u","t","o">>,
      <<"G","P","T","-","4","o"," ","m","i","n","i">>,
      <<"o","1","-","p","r","o">>,
      <<"G","P","T","-","4"," ","T","u","r","b","o">>,
      <<"c","o","n","s","t","r","u","c","t","o","r">>,
      <<"g","p","t","-","-","5">>,
      <<>> }

\* texts the model-switcher button is seen with
Labels ==
    { <<"C","h","a","t","G","P","T"," ","5"," ","P","r","o">>,
      <<"C","h","a","t","G","P","T"," ","4","o">> }

IsLetter(c) == \E i \in 1..26 : c = UpperLetters[i] \/ c = LowerLetters[i]

\* the same letter in the other case
ToggleCase(c) ==
    IF \E i \in 1..26 : UpperLetters[i] = c
    THEN ToLowerChar(c)
    ELSE UpperLetters[CHOOSE i \in 1..26 : LowerLetters[i] = c]

nonSelectVars == <<cmd, prompt, timeout, retries, siteVars, browser, closeCalls, exitCode, stdout, stderr,
                   queryVars, copyVars, response, initVars, loginVars>>

\* the query command is about to call selectModel with the --model name
InitSelect ==
    /\ cmd = "query"
    /\ prompt = <<"p","i","n","g">>
    /\ model \in SelectNames
    /\ timeout = DefaultTimeout
    /\ pc = "respell"
    /\ IdleState
    /\ retries = defaultRetries
    /\ IdleSite
    /\ IdleProfile
    /\ IdleLogin
    /\ original = model
    /\ edits = 0
    /\ definition = Undefined
    /\ uiActions = 0
    /\ warnings = <<>>
    /\ label \in Labels
    /\ labelBefore = label
    /\ IdlePick

\* the name is spelled with one letter in the other case
RespellCase ==
    /\ pc = "respell"
    /\ calls = 0
    /\ edits < MaxEdits
    /\ \E i \in 1..Len(model) :
         /\ IsLetter(model[i])
         /\ model' = [model EXCEPT ![i] = ToggleCase(model[i])]
    /\ edits' = edits + 1
    /\ UNCHANGED <<nonSelectVars, pc, now, error, original, definition, uiActions,
                   warnings, label, labelBefore, pickVars>>

\* the name is spelled with whitespace for a dash, or a dash for whitespace
RespellSeparator ==
    /\ pc = "respell"
    /\ calls = 0
    /\ edits < MaxEdits
    /\ \E i \in 1..Len(model) :
         \/ /\ model[i] = "-"
            /\ \E w \in {" ", "\t"} : model' = [model EXCEPT ![i] = w]
         \/ /\ IsWhitespace(model[i])
            /\ model' = [model EXCEPT ![i] = "-"]
    /\ edits' = edits + 1
    /\ UNCHANGED <<nonSelectVars, pc, now, error, original, definition, uiActions,
                   warnings, label, labelBefore, pickVars>>

\* an alias is replaced by the key it stands for, or a key by one of its
\* aliases
RespellAlias ==
    /\ pc = "respell"
    /\ calls = 0
    /\ edits < MaxEdits
    /\ \E a \in aliasMap :
         \/ normalizeName(model) = a[1] /\ model' = a[2]
         \/ normalizeName(model) = a[2] /\ model' = a[1]
    /\ edits' = edits + 1
    /\ UNCHANGED <<nonSelectVars, pc, now, error, original, definition, uiActions,
                   warnings, label, labelBefore, pickVars>>

\* variant: the picker is opened whatever the entry check found
skipsSwitch_Never(alreadySelected) == FALSE

\* if (await this.isModelAlreadySelected(trigger, definition)) return
skipsSwitch(alreadySelected) == alreadySelected

\* variant: the remaining targets are tried after a successful click, too
stopsAtClick_Never(outcome) == FALSE

\* tryClickable returned true: applyModelSelection returns true
stopsAtClick(outcome) == outcome = "clicked"

\* what a locator's count() and click() can come to
ClickOutcomes == {"missing", "failed", "clicked"}

\* where applyModelSelection starts for a definition
firstApplyPhase(def) == IF Len(preSteps(def)) > 0 THEN "applyPre" ELSE "applyOption"

\* selectModel is called on the page as it is: resolve the name;
\* unrecognized: warn and return
SelectResolve ==
    /\ pc = "respell"
    /\ calls' = calls + 1
    /\ definition' = resolveModelDefinition(model)
    /\ labelBefore' = label
    /\ actionsBefore' = uiActions
    /\ selected' = "none"
    /\ clickLog' = <<>>
    /\ applyIdx' = 0
    /\ IF definition' = NullValue
       THEN /\ warnings' = Append(warnings, WarnNotRecognized(model))
            /\ soft' = {"unrecognized"}
            /\ pc' = "selectReturned"
       ELSE /\ warnings' = warnings
            /\ soft' = {}
            /\ pc' = "selectCheck"
    /\ UNCHANGED <<nonSelectVars, model, now, error, original, edits, uiActions, label,
                   labelRead, confirmed>>

\* isModelAlreadySelected on the trigger's text (null when it is absent or
\* cannot be read)
SelectCheckCurrent ==
    /\ pc = "selectCheck"
    /\ labelRead' \in {label, NullValue}
    /\ LET alreadySelected == isModelAlreadySelected(labelRead', definition)
       IN /\ selected' = IF alreadySelected THEN "true" ELSE "false"
          /\ pc' = IF skipsSwitch(alreadySelected) THEN "selectReturned" ELSE "selectOpen"
    /\ UNCHANGED <<nonSelectVars, model, now, error, original, edits, definition,
                   uiActions, warnings, label, labelBefore, calls, confirmed, soft,
                   clickLog, actionsBefore, applyIdx>>

\* ensureComposerReady, then click the trigger and wait for the menu
SelectOpenPicker ==
    /\ pc = "selectOpen"
    /\ \/ /\ uiActions' = uiActions + 1
          /\ pc' = firstApplyPhase(definition)
          /\ UNCHANGED <<warnings, soft>>
       \/ /\ uiActions' \in {uiActions, uiActions + 1}
          /\ warnings' = Append(warnings, WarnPickerFailed)
          /\ soft' = soft \cup {"picker"}
          /\ pc' = "selectReturned"
    /\ UNCHANGED <<nonSelectVars, model, now, error, original, edits, definition,
                   label, labelBefore, calls, labelRead, selected, confirmed, clickLog,
                   actionsBefore, applyIdx>>

\* applyModelSelection, one precondition step: not found, click fails, or
\* clicked; the next step follows in every case
ApplyPreStep ==
    /\ pc = "applyPre"
    /\ applyIdx < Len(preSteps(definition))
    /\ \E outcome \in ClickOutcomes :
         /\ clickLog' = Append(clickLog, <<"pre", preSteps(definition)[applyIdx + 1], outcome>>)
         /\ uiActions' = IF outcome = "clicked" THEN uiActions + 1 ELSE uiActions
         /\ now' = IF outcome = "clicked" THEN now + PreStepSettleMs ELSE now
         /\ soft' = IF outcome = "clicked" THEN soft ELSE soft \cup {"preStep"}
    /\ IF applyIdx + 1 < Len(preSteps(definition))
       THEN applyIdx' = applyIdx + 1 /\ pc' = pc
       ELSE applyIdx' = 0 /\ pc' = "applyOption"
    /\ UNCHANGED <<nonSelectVars, model, error, original, edits, definition, warnings,
                   label, labelBefore, calls, labelRead, selected, confirmed, actionsBefore>>

\* applyModelSelection, one declared option identifier
ApplyOption ==
    /\ pc = "applyOption"
    /\ applyIdx < Len(optionTestIds(definition))
    /\ \E outcome \in ClickOutcomes :
         /\ clickLog' = Append(clickLog,
                               <<"option", optionTestIds(definition)[applyIdx + 1], outcome>>)
         /\ uiActions' = IF outcome = "clicked" THEN uiActions + 1 ELSE uiActions
         /\ IF stopsAtClick(outcome)
            THEN /\ pc' = "selectConfirm"
                 /\ applyIdx' = 0
                 /\ now' = now + SelectSettleMs
                 /\ label' \in Labels
            ELSE /\ IF applyIdx + 1 < Len(optionTestIds(definition))
                    THEN applyIdx' = applyIdx + 1 /\ pc' = pc
                    ELSE applyIdx' = 0 /\ pc' = "applyFallback"
                 /\ UNCHANGED <<now, label>>
    /\ UNCHANGED <<nonSelectVars, model, error, original, edits, definition, warnings,
                   labelBefore, calls, labelRead, selected, confirmed, soft, actionsBefore>>

\* applyModelSelection, one fallback label
ApplyFallback ==
    /\ pc = "applyFallback"
    /\ applyIdx < Len(fallbackTexts(definition))
    /\ \E outcome \in ClickOutcomes :
         /\ clickLog' = Append(clickLog,
                               <<"fallback", fallbackTexts(definition)[applyIdx + 1], outcome>>)
         /\ uiActions' = IF outcome = "clicked" THEN uiActions + 1 ELSE uiActions
         /\ IF stopsAtClick(outcome)
            THEN /\ pc' = "selectConfirm"
                 /\ applyIdx' = 0
                 /\ now' = now + SelectSettleMs
                 /\ label' \in Labels
            ELSE /\ IF applyIdx + 1 < Len(fallbackTexts(definition))
                    THEN applyIdx' = applyIdx + 1 /\ pc' = pc
                    ELSE applyIdx' = 0 /\ pc' = "applyNone"
                 /\ UNCHANGED <<now, label>>
    /\ UNCHANGED <<nonSelectVars, model, error, original, edits, definition, warnings,
                   labelBefore, calls, labelRead, selected, confirmed, soft, actionsBefore>>

\* applyModelSelection returned false: warn, press Escape (a rejection of
\* the key press is swallowed), return
SelectNotApplied ==
    /\ pc = "applyNone"
    /\ warnings' = Append(warnings, WarnOptionNotFound(model))
    /\ soft' = soft \cup {"noOption"}
    /\ clickLog' = Append(clickLog, <<"key", "Escape", "pressed">>)
    /\ uiActions' = uiActions + 1
    /\ pc' = "selectReturned"
    /\ UNCHANGED <<nonSelectVars, model, now, error, original, edits, definition,
                   label, labelBefore, calls, labelRead, selected, confirmed,
                   actionsBefore, applyIdx>>

\* the confirmation: logged either way; reading the label for the debug
\* line can reject
SelectConfirm ==
    /\ pc = "selectConfirm"
    /\ labelRead' \in {label, NullValue}
    /\ IF isModelAlreadySelected(labelRead', definition)
       THEN /\ confirmed' = "true"
            /\ soft' = soft
            /\ pc' = "selectReturned"
            /\ error' = error
       ELSE /\ confirmed' = "false"
            /\ soft' = soft \cup {"unconfirmed"}
            /\ \/ pc' = "selectReturned" /\ error' = error
               \/ Throw(ErrDriver)
    /\ UNCHANGED <<nonSelectVars, model, now, original, edits, definition, uiActions,
                   warnings, label, labelBefore, calls, selected, clickLog,
                   actionsBefore, applyIdx>>

\* names given, respelled, resolved, and the entry check made
NextSelect ==
    \/ RespellCase
    \/ RespellSeparator
    \/ RespellAlias
    \/ SelectResolve
    \/ SelectCheckCurrent
    \/ SelectOpenPicker

SpecSelect == InitSelect /\ [][NextSelect]_vars

(***************************************************************************)
(* SpecShown: selectModel called for a catalog key while the model-switcher *)
(* button shows the display name of a catalog entry                        *)
(***************************************************************************)
\* the displayName fields of the catalog
DisplayNames == { displayName(e) : e \in CatalogEntries }

InitShown ==
    /\ cmd = "query"
    /\ prompt = <<"p","i","n","g">>
    /\ model \in ModelKeys
    /\ timeout = DefaultTimeout
    /\ pc = "respell"
    /\ IdleState
    /\ retries = defaultRetries
    /\ IdleSite
    /\ IdleProfile
    /\ IdleLogin
    /\ original = model
    /\ edits = 0
    /\ definition = Undefined
    /\ uiActions = 0
    /\ warnings = <<>>
    /\ label \in DisplayNames
    /\ labelBefore = label
    /\ IdlePick

SpecShown == InitShown /\ [][NextSelect]_vars

(***************************************************************************)
(* SpecRetries: the query command run under each configured retry count    *)
(***************************************************************************)
\* values of --retries: parseInt of the option, 2 when it is not given
RetryCounts == {0, defaultRetries, 5}

InitRetries ==
    /\ cmd = "query"
    /\ prompt = <<"p","i","n","g">>
    /\ model = ModelGpt4o
    /\ timeout = 9000
    /\ pc = "start"
    /\ IdleState
    /\ retries \in RetryCounts
    /\ IdleSite
    /\ IdleProfile
    /\ IdleLogin
    /\ IdleSelect

NextRetries ==
    \/ Initialize
    \/ CheckSession
    \/ QueryNotLoggedIn
    \/ QuerySelectModel
    \/ QueryWaitInput
    \/ QueryBaseline
    \/ QuerySubmit
    \/ QueryDeadline
    \/ QueryDriverThrows
    \/ ArrivalPoll
    \/ ArrivalDeadline
    \/ ArrivalConfirm
    \/ StabilizePoll
    \/ StabilizeTimeout
    \/ CopyBegin
    \/ CopyPoll
    \/ CopyWindowEnd
    \/ CopyThrows
    \/ CloseAndExit
    \/ CatchError

SpecRetries == InitRetries /\ [][NextRetries]_vars

(***************************************************************************)
(* SpecTerm: both commands from their start, and loginInteractive step by  *)
(* step                                                                    *)
(***************************************************************************)
InitTerm ==
    \/ Init
    \/ InitLogin /\ profile = <<"d","e","f","a","u","l","t">> /\ stateFile = "valid"

NextTerm == Next \/ NextLogin

SpecTerm == InitTerm /\ [][NextTerm]_vars

(***************************************************************************)
(* SpecProbe: the two session probes applied to one page and cookie state  *)
(* that stays as it is: the confirmation of loginInteractive, then         *)
(* checkSession on the state that was confirmed                            *)
(***************************************************************************)
InitProbe ==
    /\ cmd = "login"
    /\ prompt = <<>>
    /\ model = <<"g","p","t","-","5","-","p","r","o">>
    /\ timeout = DefaultTimeout
    /\ pc = "confirmation"
    /\ IdleState
    /\ retries = defaultRetries
    /\ page \in Pages
    /\ cookies \in SUBSET CookieNames
    /\ IdleProfile
    /\ IdleLogin
    /\ IdleSelect

\* loginSuccess = await this.waitForAuthenticatedSession()
ProbeConfirmation ==
    /\ pc = "confirmation"
    /\ hasSessionCookie' = IF someSessionCookie(cookies) THEN "true" ELSE "false"
    /\ domLoggedIn' = IF page.throws THEN "threw"
                      ELSE IF confirmationSignal(page) THEN "true" ELSE "false"
    /\ loginSuccess' = IF confirmsLogin(page, cookies) THEN "true" ELSE "false"
    /\ pc' = "sessionCheck"
    /\ UNCHANGED <<nonLoginVars, credVars, now, error, initVars, entryVars, otpVars,
                   authStart, authPolls, screenshots, saveVars>>

\* checkSession's return await this.checkIfLoggedIn()
ProbeSession ==
    /\ pc = "sessionCheck"
    /\ probe' = IF checkIfLoggedIn(page, cookies) THEN "true" ELSE "false"
    /\ pc' = "exited"
    /\ UNCHANGED <<nonLoginVars, credVars, now, error, initVars, btnClicks, typedIdentity,
                   typedSecret, url, otpVars, authVars, saveVars>>

NextProbe ==
    \/ ProbeConfirmation
    \/ ProbeSession

SpecProbe == InitProbe /\ [][NextProbe]_vars

(***************************************************************************)
(* SpecSession: the query command from its start to the submitted prompt,  *)
(* run under each profile                                                  *)
(***************************************************************************)
InitSession ==
    /\ cmd = "query"
    /\ prompt \in Prompts
    /\ \E cfg \in Configs : model = cfg[1] /\ timeout = cfg[2]
    /\ pc = "start"
    /\ IdleState
    /\ retries = defaultRetries
    /\ IdleSite
    /\ profile \in Profiles
    /\ stateDirExists = TRUE
    /\ stateFile \in {"absent", "valid"}
    /\ chromiumInstalled = TRUE
    /\ restored = FALSE
    /\ mkdirCalls = 0
    /\ storedState = "previous"
    /\ IdleLogin
    /\ IdleSelect

NextSession ==
    \/ QueryNoPrompt
    \/ Initialize
    \/ CheckSession
    \/ QueryNotLoggedIn
    \/ QuerySelectModel
    \/ QueryWaitInput
    \/ QueryBaseline
    \/ QuerySubmit
    \/ QueryDriverThrows
    \/ CatchError

SpecSession == InitSession /\ [][NextSession]_vars

(***************************************************************************)
(* SpecPicker: selectModel step by step on an open page, called by query   *)
(* (which then waits for the input and submits) and called again           *)
(***************************************************************************)
MaxCalls == 2

\* names the picker is driven with
PickerNames ==
    ModelKeys \cup
    { <<"G","P","T","-","5"," ","P","r","o">>,
      <<"o","1","-","p","r","o">> }

\* texts the model-switcher button is seen with, the empty text included
PickerLabels ==
    Labels \cup
    { <<"G","P","T","-","4","o"," ","M","I","N","I">>,
      <<"C","h","a","t","G","P","T"," ","5">>,
      <<>> }

InitPicker ==
    /\ cmd = "query"
    /\ prompt = <<"p","i","n","g">>
    /\ model \in PickerNames
    /\ timeout = DefaultTimeout
    /\ pc = "respell"
    /\ IdleState
    /\ retries = defaultRetries
    /\ IdleSite
    /\ IdleProfile
    /\ IdleLogin
    /\ original = model
    /\ edits = 0
    /\ definition = Undefined
    /\ uiActions = 0
    /\ warnings = <<>>
    /\ label \in PickerLabels
    /\ labelBefore = label
    /\ IdlePick

\* selectModel is called once more with the same name
SelectAgain ==
    /\ pc = "selectReturned"
    /\ calls < MaxCalls
    /\ pc' = "respell"
    /\ UNCHANGED <<nonSelectVars, model, now, error, selectVars>>

\* selectModel returned to query: wait for the prompt input next
QueryResumes ==
    /\ pc = "selectReturned"
    /\ pc' = "waitInput"
    /\ UNCHANGED <<nonSelectVars, model, now, error, selectVars>>

NextPicker ==
    \/ SelectResolve
    \/ SelectCheckCurrent
    \/ SelectOpenPicker
    \/ ApplyPreStep
    \/ ApplyOption
    \/ ApplyFallback
    \/ SelectNotApplied
    \/ SelectConfirm
    \/ SelectAgain
    \/ QueryResumes
    \/ QueryWaitInput
    \/ QueryBaseline
    \/ QuerySubmit
    \/ CatchError

SpecPicker == InitPicker /\ [][NextPicker]_vars


(***************************************************************************)
(* Properties                                                              *)
(***************************************************************************)
\* query has declared the response final (it is extracting or has returned)
Finalized == pc \in {"copy", "copyLoop"} \/ response # NullValue

\* C1: in the stabilization phase every observation of the last assistant
\* message updates the counter by the rule -- empty trimmed text: counter 0;
\* non-empty text of the recorded length: counter + 1; non-empty text of
\* another length: counter 0 and that length recorded -- and query finalizes
\* at exactly the poll after which the counter equals 3, at no earlier one.
C1_StabilityRule ==
    /\ [][ samples' = samples + 1 =>
             LET L == Len(Trim(currentText'))
             IN /\ (L = 0 => stableCount' = 0)
                /\ (L # 0 /\ L = previousLength => stableCount' = stableCount + 1)
                /\ (L # 0 /\ L # previousLength =>
                        stableCount' = 0 /\ previousLength' = L)
                /\ (pc' = "copy" <=> stableCount' = 3) ]_vars
    /\ [](Finalized => stableCount = 3)
    /\ [](stableCount = 3 => Finalized \/ pc \in {"print", "close", "catch", "exited"})

\* C1 witness: finalized with the counter at 3 after the counter had been
\* reset by more than the first observation
C1_Witness ==
    pc = "copy" /\ stableCount = 3 /\ samples > 5 /\ Len(Trim(currentText)) = previousLength

\* C2 as stated: once the lengths 0,5,5,5,8,8,8 have been observed (seven
\* samples) query has finalized.
C2_FinalizesAtSeventhSample == scen = 7 => Finalized

\* C2, amended: with the observed lengths 0,5,5,5,8,8,8,8 query has not
\* finalized after any of the first seven samples; it finalizes at the 8th
\* sample (length 8, counter 3), and the rendered text it returns when the
\* copy extraction yields nothing is the trimmed content of that 8th sample.
C2_FinalizesAtEighthSample ==
    /\ (scen \in 1..7 => ~Finalized /\ stableCount < 3)
    /\ (scen = 8 =>
          /\ Finalized
          /\ samples = 8 /\ stableCount = 3
          /\ Len(Trim(currentText)) = 8
          /\ (response # NullValue /\ copied = NullValue => response = Trim(currentText)))

\* C2 witness: query returned the rendered text of the 8th sample of the example
C2_Witness ==
    scen = 8 /\ pc = "print" /\ copied = NullValue /\ response = Trim(TextPadded)

\* C3: the baseline count is recorded before the prompt is submitted, and
\* query reads response text, finalizes or returns only after it has observed
\* a count strictly greater than the baseline.
C3_ArrivalBeforeStabilization ==
    /\ (submittedAt >= 0 => initialMessages >= 0)
    /\ (maxSeen >= 0 => submittedAt >= 0)
    /\ (pc = "stabilize" \/ samples > 0 \/ Finalized => maxSeen > initialMessages)

\* C3 witness: stabilization reading text after an arrival that took polling
C3_Witness ==
    pc = "stabilize" /\ samples > 0 /\ polls > 1 /\ maxSeen > initialMessages
    /\ submittedAt > 0


\* query threw its arrival timeout: no observed count exceeded the baseline
ArrivalTimedOut ==
    /\ pc \in {"catch", "exited"}
    /\ error = TimeoutError(responseTimeout)
    /\ maxSeen <= initialMessages

\* C4: when the count never exceeds the baseline query throws its timeout
\* error, and only once the deadline (submission time plus the effective
\* timeout) has passed; it does not poll forever: from the arrival phase the
\* run always reaches a count above the baseline or a thrown error (the
\* timeout, or the rejection of a driver call).
C4_ArrivalTimeout ==
    /\ [](ArrivalTimedOut =>
            /\ responseDeadline = submittedAt + responseTimeout
            /\ now >= responseDeadline)
    /\ [](pc \in {"arrival", "confirm"} /\ maxSeen <= initialMessages =>
            error = NoError)
    /\ (pc = "arrival" ~>
            \/ maxSeen > initialMessages
            \/ error = TimeoutError(responseTimeout)
            \/ error = ErrDriver)

\* C4 witness: the arrival timeout was thrown after polling up to the deadline
C4_Witness ==
    ArrivalTimedOut /\ pc = "catch" /\ polls > 0 /\ maxSeen >= 0
    /\ now >= responseDeadline

\* C5 as stated: if the deadline passed while the counter was below 3, query
\* does not return a response.
C5_NoReturnAfterDeadline == deadlineCrossed \in 0..2 => ~Finalized

\* C5, amended: if the counter has not reached 3 when the stabilization loop
\* next tests the deadline at or after its passing (the poll under way when
\* the deadline passes is still completed and may finalize), query throws the
\* timeout error; query never finalizes or returns with a counter below 3.
C5_TimeoutAtLoopTest ==
    /\ [][ pc = "stabilize" /\ now >= responseDeadline =>
             /\ pc' = "catch"
             /\ error' = TimeoutError(responseTimeout)
             /\ response' = NullValue ]_vars
    /\ [](Finalized => stableCount >= 3)
    /\ [](response # NullValue => stableCount >= 3 /\ Len(Trim(currentText)) > 0)

\* C5 witness: the stabilization timeout was thrown with a partial response
\* observed and the counter below 3
C5_Witness ==
    /\ pc = "catch" /\ error = TimeoutError(responseTimeout)
    /\ maxSeen > initialMessages /\ samples > 0
    /\ stableCount \in 1..2 /\ Len(Trim(currentText)) > 0
    /\ response = NullValue

\* C6 as stated: the arrival timeout's message includes the configured
\* duration (options.timeout), whatever the model.
C6_MessageHasConfiguredTimeout ==
    ArrivalTimedOut => Includes(error, NumberToString(timeout))

\* C6, amended: the arrival timeout's message includes the effective
\* response timeout in milliseconds: max(configured, 30 minutes) for a
\* slow-family model, and for any other model the configured duration, or 0
\* when the configured value is negative.
C6_MessageHasEffectiveTimeout ==
    ArrivalTimedOut =>
        /\ Includes(error, NumberToString(
               IF requiresLongTimeout(model) THEN Max(timeout, 1800000)
               ELSE IF timeout < 0 THEN 0 ELSE timeout))
        /\ error[Len(error)] = "ms"

\* C6 witness: the arrival timeout thrown for a slow-family model configured
\* with the default 60000 ms
C6_Witness ==
    ArrivalTimedOut /\ model = ModelDefault /\ timeout = 60000 /\ pc = "exited"
    /\ stderr = TimeoutError(1800000)

\* C7 as stated: the effective response timeout is max(configured, 30
\* minutes) when the normalized model name contains a slow-family token, also
\* when the configured timeout is smaller, and exactly the configured timeout
\* for every other model name.
C7_ExactlyConfiguredOtherwise ==
    pc = "arrival" =>
        responseTimeout =
             IF \E name \in longRunningModels :
                    Includes(ReplaceSeparators(ToLowerCase(model)), name)
             THEN Max(timeout, 30 * 60 * 1000)
             ELSE timeout

\* C7, amended: the effective response timeout is max(configured, 30 minutes)
\* when the normalized model name contains a slow-family token, and
\* max(configured, 0) for every other model name: exactly the configured
\* timeout unless that is negative.
C7_LongRunningFloor ==
    pc = "arrival" =>
        /\ responseTimeout =
             IF \E name \in longRunningModels :
                    Includes(ReplaceSeparators(ToLowerCase(model)), name)
             THEN Max(timeout, 30 * 60 * 1000)
             ELSE Max(timeout, 0)
        /\ (model \in {ModelDefault, <<"g","p","t","_","5">>, <<"G","P","T","5">>}
              => responseTimeout >= 1800000)
        /\ (model \in {ModelGpt4o, <<"o","1","-","p","r","o">>, <<"g","p","t","-","-","5">>}
              /\ timeout >= 0 => responseTimeout = timeout)

\* C7 witness: a slow-family model with a smaller configured timeout got the floor
C7_Witness ==
    pc = "arrival" /\ model = ModelDefault /\ timeout = 1800
    /\ responseTimeout = 1800000

\* C8: on finalization query returns the trimmed copied text when the copy
\* extraction produced non-empty text and the trimmed rendered text of the
\* final observation otherwise; nothing that fails inside the copy
\* extraction makes query throw.
C8_CopyOrRendered ==
    /\ [](response # NullValue =>
            response = IF copied # NullValue /\ Len(Trim(copied)) > 0
                       THEN Trim(copied)
                       ELSE Trim(currentText))
    /\ [](response # NullValue => Len(response) > 0)
    /\ [][ (pc \in {"copy", "copyLoop"}) =>
             (pc' \in {"copy", "copyLoop", "print"} /\ error' = NoError) ]_vars

\* C8 witness: query returned the copied text, trimmed
C8_Witness ==
    pc = "print" /\ copied = ClipCopied /\ response = <<"*","h","i","*">>
    /\ response # Trim(currentText)

\* C9: the clipboard text becomes query's result only if the value read back
\* after the click differs from the value read before it; a clipboard still
\* holding its pre-copy contents when the retry window ends yields nothing.
C9_ClipboardMustDiffer == copied # NullValue => clip # before

\* C10: a command that exits after the browser was launched has called
\* ChatGPT.close before exiting.
C10_CloseBeforeExit == pc = "exited" /\ browser # "null" => closeCalls >= 1

\* C17: for every profile name, when the profile directory holds no state
\* file, initialize leaves the directory existing (created if it was absent,
\* no mkdir call if it was there), creates the context without a saved
\* session, and never fails with the error of reading the state file.
C17_MissingStateFile ==
    /\ (pc # "mkdir" => stateDirExists /\ mkdirCalls \in {0, 1})
    /\ (stateFile = "absent" =>
            /\ ~restored
            /\ error # ErrStorageState
            /\ stderr # ErrStorageState)

\* C17 witness: initialization completed in a profile directory that had to
\* be created and holds no state file
C17_Witness ==
    /\ pc = "initialized"
    /\ stateFile = "absent"
    /\ mkdirCalls = 1
    /\ ~restored

\* C18: when the state file exists but is corrupt, initialization does not
\* fail because of it, and any context it creates is a fresh one.
C18_CorruptStateNotFatal ==
    stateFile = "corrupt" =>
        /\ error # ErrStorageState
        /\ stderr # ErrStorageState
        /\ ~restored

\* C11: when the probe run right after loading the landing page is positive,
\* loginInteractive clicks no login button, types no identity or secret,
\* shows no verification prompt, goes straight to saveSession, and from
\* there returns with the session state written (unless the driver rejects).
C11_AlreadyLoggedIn ==
    /\ [](probe = "true" =>
              /\ btnClicks = 0
              /\ ~typedIdentity
              /\ ~typedSecret
              /\ prompts = 0
              /\ typed = <<>>)
    /\ [][ (probe = "none" /\ probe' = "true") => pc' = "save" ]_vars
    /\ [][ (pc = "save" /\ probe = "true") =>
              \/ /\ pc' = "close"
                 /\ saveCalls' = saveCalls + 1
                 /\ storedState' = "current"
              \/ error' = ErrDriver ]_vars

\* C11 witness: loginInteractive returned after a positive probe, the
\* session saved and nothing entered
C11_Witness ==
    /\ pc = "close"
    /\ probe = "true"
    /\ saveCalls = 1
    /\ storedState = "current"
    /\ btnClicks = 0
    /\ ~typedSecret

\* C12: whenever loginInteractive has returned normally, saveSession was
\* called before, browser-state.json exists in the profile directory and
\* holds the current session state, whatever was stored there before.
C12_SavedBeforeReturn ==
    (pc = "close" \/ exitCode = 0) =>
        /\ saveCalls >= 1
        /\ stateFile = "valid"
        /\ storedState = "current"

\* C12 witness: a login through credential entry returned, replacing the
\* state the profile held before
C12_Witness ==
    /\ pc = "close"
    /\ probe = "false"
    /\ loginSuccess = "true"
    /\ restored
    /\ saveCalls = 1
    /\ storedState = "current"

\* C13: when waitForOtpInputs returns null, the operator is never prompted
\* and nothing is typed as a code; the next step is the confirmation of the
\* authenticated session.
C13_NoOtpNoPrompt ==
    /\ [](codeInputs = "null" => prompts = 0 /\ typed = <<>>)
    /\ [][ (codeInputs # "null" /\ codeInputs' = "null") => pc' = "authWait" ]_vars

\* C13 witness: a login succeeded without any verification step
C13_Witness ==
    /\ pc = "close"
    /\ codeInputs = "null"
    /\ typedSecret
    /\ prompts = 0
    /\ loginSuccess = "true"

\* C14: with a code of d characters and n inputs, what is typed is always a
\* prefix of: the whole code into the first input if n <= 1; otherwise
\* character i into box i for i < min(d, n), in increasing order. When
\* typing has ended exactly that was typed, and for n > 1 the warning was
\* logged iff d > n.
C14_CodeDistribution ==
    LET d == Len(code)
        n == visibleOtpCount
        m == IF d < n THEN d ELSE n
        expected == IF n <= 1 THEN << <<0, code>> >>
                    ELSE [i \in 1..m |-> <<i - 1, <<code[i]>>>>]
    IN /\ Len(typed) <= Len(expected)
       /\ \A i \in 1..Len(typed) : typed[i] = expected[i]
       /\ (warned => n > 1 /\ d > n)
       /\ (pc = "otpSubmit" =>
              /\ typed = expected
              /\ (n > 1 => (warned <=> d > n)))

\* C14 witness: four characters for three boxes: three typed, warning logged
C14_Witness ==
    /\ pc = "otpSubmit"
    /\ visibleOtpCount = 3
    /\ Len(code) = 4
    /\ Len(typed) = 3
    /\ warned

\* C15: a poll of the confirmation loop in which the session-cookie signal
\* or the in-page signal is positive makes waitForAuthenticatedSession
\* return true.
C15_EitherSignalSuffices ==
    (hasSessionCookie = "true" \/ domLoggedIn = "true") => loginSuccess = "true"

\* C16: waitForAuthenticatedSession returns false only when the confirmation
\* bound is exceeded, and the failure that follows has captured
\* /tmp/login-failed.png and names the current URL and that path.
C16_FailureOnlyAtBound ==
    /\ (loginSuccess = "false" => ~(now - authStart < AuthMaxWaitMs))
    /\ (loginSuccess = "false" /\ pc \in {"catch", "exited"} /\ error # ErrDriver =>
            /\ error = ErrLoginFailed(url)
            /\ ShotLoginFailed \in screenshots)

\* the name is neither a catalog key nor an alias after normalization
Unrecognized(modelName) ==
    normalizeName(modelName) \notin (ModelKeys \cup AliasKeys)

C20_UnrecognizedIsSkipped ==
    Unrecognized(model) =>
        /\ resolveModelDefinition(model) = NullValue
        /\ (pc # "respell" =>
               /\ pc = "selectReturned"
               /\ definition = NullValue
               /\ warnings = <<WarnNotRecognized(model)>>
               /\ uiActions = 0
               /\ label = labelBefore
               /\ error = NoError)

\* C20 witness: selectModel returned for an unrecognized name
C20_Witness ==
    /\ pc = "selectReturned"
    /\ Unrecognized(model)
    /\ definition = NullValue
    /\ warnings # <<>>
    /\ uiActions = 0

\* some occurrence of token in text, letter case ignored on both sides
ContainsIgnoringCase(text, token) ==
    \E i \in 0..(Len(text) - Len(token)) :
        \A j \in 1..Len(token) : ToLowerChar(text[i + j]) = ToLowerChar(token[j])

\* the label read holds one of the definition's verification substrings
LabelNamesModel(text, def) ==
    /\ text # NullValue
    /\ text # <<>>
    /\ \E k \in 1..Len(verifyTokens(def)) : ContainsIgnoringCase(text, verifyTokens(def)[k])

\* C21: isModelAlreadySelected, at the entry check and at the confirmation,
\* returns true exactly when the label it read contains, letter case
\* ignored, one of the definition's verification substrings; for an absent,
\* empty or unreadable label it returns false.
C21_AlreadySelectedIffLabelNamesModel ==
    [][ /\ (pc = "selectCheck") =>
              (selected' = "true" <=> LabelNamesModel(labelRead', definition))
        /\ (pc = "selectConfirm") =>
              (confirmed' = "true" <=> LabelNamesModel(labelRead', definition)) ]_vars

C21_Witness ==
    /\ pc = "selectReturned"
    /\ calls = 1
    /\ labelRead = <<"G","P","T","-","4","o"," ","M","I","N","I">>
    /\ entryKey(definition) = <<"g","p","t","-","4","o","-","m","i","n","i">>
    /\ selected = "true"
    /\ uiActions = 0

\* C22: when the entry check finds the requested model active, selectModel
\* returns with no UI action and the page as it was; and after a confirmed
\* switch the entry check of the next call, reading the label, finds the
\* model active.
C22_NoActionWhenAlreadySelected ==
    [][ (pc = "selectCheck") =>
           /\ (selected' = "true" =>
                  /\ pc' = "selectReturned"
                  /\ uiActions' = uiActions
                  /\ clickLog' = clickLog
                  /\ label' = label
                  /\ warnings' = warnings)
           /\ (confirmed = "true" /\ labelRead' # NullValue => selected' = "true") ]_vars

C22_Witness ==
    /\ calls = 2
    /\ confirmed = "true"
    /\ selected = "true"
    /\ pc = "selectReturned"
    /\ uiActions > 0
    /\ uiActions = actionsBefore
    /\ clickLog = <<>>

\* C23: no soft failure of model selection aborts the query: with a soft
\* failure met in selectModel, the query is not in its catch handler.
C23_SoftFailureNeverAborts ==
    soft # {} => pc \notin {"catch", "exited"}

IsPre(e) == e[1] = "pre"
IsOption(e) == e[1] = "option"
IsFallback(e) == e[1] = "fallback"
IsKey(e) == e[1] = "key"

\* the order applyModelSelection and selectModel work in
AttemptRank(kind) ==
    CASE kind = "pre" -> 0
      [] kind = "option" -> 1
      [] kind = "fallback" -> 2
      [] OTHER -> 3

\* the k-th attempt of a kind aimed at the k-th declared target
InDeclaredOrder(attempts, declared) ==
    /\ Len(attempts) <= Len(declared)
    /\ \A k \in 1..Len(attempts) : attempts[k][2] = declared[k]

ReadmeModelNames ==
    { <<"G","P","T","-","5"," ","P","r","o">>,
      <<"o","1","-","p","r","o">>,
      <<"G","P","T","-","4">>,
      <<"G","P","T","-","4"," ","T","u","r","b","o">> }

\* the name is one the README lists, in some letter case
IsReadmeName(modelName) ==
    \E n \in ReadmeModelNames : ToLowerCase(modelName) = ToLowerCase(n)

\* C27: every model name the README lists as supported, in any letter case,
\* resolves to a catalog entry, so selectModel does not skip the switch.
C27_ReadmeNamesResolve ==
    (IsReadmeName(model) /\ calls > 0) => definition # NullValue

\* C24 as stated: when checkSession returns false the command submits
\* nothing, prints a hint that names the profile, and exits with code 1.
C24_HintNamesProfile ==
    [][ (pc = "notLoggedIn") =>
           /\ pc' = "exited"
           /\ exitCode' = 1
           /\ submittedAt' = -1
           /\ stdout' = NullValue
           /\ Includes(stderr', profile) ]_vars

\* C24 amended: the hint names the profile when it is not the default one;
\* for the default profile it is the plain login command.
C24_HintNamesOtherProfile ==
    [][ (pc = "notLoggedIn") =>
           /\ pc' = "exited"
           /\ exitCode' = 1
           /\ submittedAt' = -1
           /\ stdout' = NullValue
           /\ stderr'[1] = "Not logged in. Please run: gpt5 login"
           /\ IF profile = <<"d","e","f","a","u","l","t">>
              THEN Len(stderr') = 1
              ELSE Includes(stderr', <<"(with profile: gpt5 login --profile ">> \o profile) ]_vars

C24_Witness ==
    /\ pc = "exited"
    /\ exitCode = 1
    /\ submittedAt = -1
    /\ profile = <<"w","o","r","k">>
    /\ Includes(stderr, profile)

\* C25 as stated, its last part: the response is on standard output only
\* in a run that exits with code 0.
C25_ResponseOnlyOnSuccess ==
    (pc = "exited" /\ stdout # NullValue) => exitCode = 0

\* C25 amended: a command exits 0 exactly when initialization, its
\* operation and the browser close completed without a thrown error, and
\* exits 1 with the error message on standard error whenever a step threw;
\* the response is printed only after query returned it, and a run that
\* printed it exits 1 only when the close that follows threw.
C25_ExitCodes ==
    /\ (pc = "exited") => exitCode \in {0, 1}
    /\ (pc = "exited" /\ exitCode = 0) =>
          /\ error = NoError
          /\ stderr = NoError
          /\ browser = "closed"
          /\ closeCalls = 1
          /\ (cmd = "query" => response # NullValue /\ stdout = response)
    /\ (pc = "exited" /\ error # NoError) => (exitCode = 1 /\ stderr = error)
    /\ (pc = "exited" /\ error = NoError /\ closeCalls > 0) => exitCode = 0
    /\ (stdout # NullValue) =>
          /\ cmd = "query"
          /\ response # NullValue
          /\ stdout = response
          /\ (pc = "exited" /\ exitCode = 1 => error = ErrDriver /\ closeCalls = 2)

C25_Witness ==
    /\ pc = "exited"
    /\ cmd = "query"
    /\ exitCode = 1
    /\ stdout = response
    /\ stderr = ErrDriver
    /\ closeCalls = 2

\* the fatal error kinds
FatalKinds ==
    {"launch", "credentials", "loginTimeout", "arrivalTimeout", "stabilizationTimeout",
     "emptyResponse"}

\* the messages a run's error of that kind can carry
FatalMessages(kind) ==
    CASE kind = "launch" -> {ErrInstall, ErrDriver}
      [] kind = "credentials" -> {ErrCredentials}
      [] kind = "loginTimeout" -> { ErrLoginFailed(u) : u \in Urls }
      [] kind = "arrivalTimeout" -> {TimeoutError(responseTimeout)}
      [] kind = "stabilizationTimeout" -> {TimeoutError(responseTimeout)}
      [] kind = "emptyResponse" -> {ErrEmptyResponse}

\* this step throws the error of that kind
ThrownAs(kind) ==
    /\ pc' = "catch"
    /\ CASE kind = "launch" -> pc = "start" /\ browser' # "open"
         [] kind = "credentials" -> pc = "creds"
         [] kind = "loginTimeout" -> pc = "failShot" /\ error' # ErrDriver
         [] kind = "arrivalTimeout" -> pc = "confirm" /\ error' # ErrDriver
         [] kind = "stabilizationTimeout" ->
                pc = "stabilize" /\ ~beforeDeadline(now, responseDeadline)
         [] kind = "emptyResponse" ->
                pc = "stabilize" /\ beforeDeadline(now, responseDeadline)
                                 /\ error' # ErrDriver

\* C26: the message thrown for a fatal error of one kind is not a message of
\* any other kind, so the kind can be told from the message alone.
C26_DistinctMessages ==
    [][ \A kind \in FatalKinds :
          ThrownAs(kind) =>
              \A other \in FatalKinds \ {kind} : error' \notin FatalMessages(other) ]_vars

\* C28: when the credential provider fails (a lookup error, or an empty
\* identity or secret) getCredentials throws its descriptive error and
\* loginInteractive propagates it with the page not navigated and no session
\* state saved, and the login command exits 1 with that message; otherwise
\* getCredentials returns a non-empty identity and a non-empty secret.
C28_CredentialFailure ==
    /\ [][ (pc = "creds") =>
              IF credFailure' # "none"
              THEN /\ pc' = "catch"
                   /\ error' = ErrCredentials
                   /\ url' = <<"about:blank">>
                   /\ saveCalls' = 0
                   /\ storedState' = storedState
              ELSE /\ pc' = "goto"
                   /\ email' \notin {Undefined, <<>>}
                   /\ password' \notin {Undefined, <<>>} ]_vars
    /\ [](credFailure # "none" /\ pc = "exited" =>
              /\ exitCode = 1
              /\ stderr = ErrCredentials
              /\ url = <<"about:blank">>
              /\ saveCalls = 0
              /\ ~typedIdentity)

C28_Witness ==
    /\ credFailure = "empty"
    /\ pc = "exited"
    /\ exitCode = 1
    /\ stderr = ErrCredentials

\* the positions of a run in the order the code passes through them
PcOrder ==
    <<"start", "login", "checkSession", "notLoggedIn", "query", "waitInput", "baseline",
      "fill", "deadline", "arrival", "confirm", "stabilize", "copy", "copyLoop", "print",
      "creds", "goto", "probe", "clickLogin", "email", "password", "otpWait", "otpPrompt",
      "otpType", "otpSubmit", "authWait", "authPoll", "failShot", "save", "close",
      "catch", "exited">>

Position(p) == CHOOSE i \in 1..Len(PcOrder) : PcOrder[i] = p

\* the positions inside the five polling loops
LoopPcs == {"otpWait", "arrival", "stabilize", "authPoll", "copyLoop"}

\* milliseconds until the deadline of the loop the run is in, 0 once passed
Remaining ==
    CASE pc = "otpWait" -> Max(otpDeadline - now, 0)
      [] pc = "arrival" -> Max(responseDeadline - now, 0)
      [] pc = "stabilize" -> Max(responseDeadline - now, 0)
      [] pc = "authPoll" -> Max(AuthMaxWaitMs - (now - authStart), 0)
      [] pc = "copyLoop" -> Max(copyDeadline - now, 0)
      [] OTHER -> 0

\* characters of the code still to be typed
DigitsLeft == Len(code) - Len(typed)

\* C30: every step of a query or login run either moves on to a later
\* position of the code, or is one more iteration of a polling loop entered
\* with its deadline still ahead that brings the deadline nearer, or types
\* one more character of the code; and a run that has not exited always has
\* a next step. So no run goes on forever: query returns or throws, and
\* loginInteractive ends once the operator has answered the prompt.
C30_EveryRunTerminates ==
    /\ [][ \/ Position(pc') > Position(pc)
           \/ /\ pc' = pc
              /\ pc \in LoopPcs
              /\ Remaining > 0
              /\ Remaining' < Remaining
           \/ /\ pc' = pc
              /\ pc = "otpType"
              /\ DigitsLeft' < DigitsLeft
              /\ DigitsLeft' >= 0 ]_vars
    /\ [](pc = "exited" \/ ENABLED NextTerm)

C30_Witness ==
    /\ cmd = "login"
    /\ pc = "exited"
    /\ codeInputs = "null"
    /\ otpPolls > 0
    /\ authPolls > 0
    /\ loginSuccess = "false"
    /\ ~(now - authStart < AuthMaxWaitMs)

\* C31: every catalog entry is stored under a property name equal to its
\* own key field, no two under the same name; every target of the alias
\* table is a property name of the catalog; so every resolution made ends
\* at not-found or at an entry of the catalog, the one stored under the
\* alias target or under the normalized name.
C31_CatalogWellFormed ==
    /\ \A p \in catalogProperties :
          /\ \E e \in CatalogEntries : entryKey(e) = p[2]
          /\ p[1] = p[2]
    /\ \A p, q \in catalogProperties : p[1] = q[1] => p = q
    /\ \A e, f \in CatalogEntries : entryKey(e) = entryKey(f) => e = f
    /\ \A e \in CatalogEntries : \E p \in catalogProperties : p[2] = entryKey(e)
    /\ \A a \in aliasMap : a[2] \in ModelKeys
    /\ (calls > 0 /\ definition # NullValue) =>
          /\ definition \in CatalogEntries
          /\ entryKey(definition) =
                (IF normalizeName(model) \in AliasKeys
                 THEN aliasLookup(normalizeName(model))
                 ELSE normalizeName(model))

C31_Witness ==
    /\ calls > 0
    /\ normalizeName(model) \in AliasKeys
    /\ definition \in CatalogEntries
    /\ entryKey(definition) # normalizeName(model)

\* C32: every string query returns is non-empty after trimming and the
\* 'Empty response received' error is raised in no run: while the text last
\* observed is empty the counter is 0 and the response is not final, so a
\* run whose response stays empty ends as a timeout (or with the rejection
\* of a driver call).
C32_NeverEmpty ==
    /\ error # ErrEmptyResponse
    /\ stderr # ErrEmptyResponse
    /\ (response # NullValue => Len(Trim(response)) > 0)
    /\ (stdout # NullValue => Len(Trim(stdout)) > 0)
    /\ (samples > 0 /\ Len(Trim(currentText)) = 0 =>
          /\ stableCount = 0
          /\ previousLength = 0
          /\ ~Finalized
          /\ pc \in {"stabilize", "catch", "exited"}
          /\ error \in {NoError, ErrDriver, TimeoutError(responseTimeout)})

C32_Witness ==
    /\ pc = "exited"
    /\ samples > 1
    /\ Len(Trim(currentText)) = 0
    /\ currentText # <<>>
    /\ stderr = TimeoutError(responseTimeout)

\* C33: a page and cookie state on which waitForAuthenticatedSession
\* confirmed the login is reported as logged in by checkIfLoggedIn.
C33_ConfirmedIsLoggedIn ==
    (loginSuccess = "true" /\ probe # "none") => probe = "true"

\* C34: while the model-switcher button shows the display name of a catalog
\* entry whose option target differs from that of the requested entry, the
\* already-selected check of selectModel answers false.
C34_OtherModelNotSelected ==
    \A b \in CatalogEntries :
        ( /\ selected # "none"
          /\ definition \in CatalogEntries
          /\ optionTestIds(b) # optionTestIds(definition)
          /\ labelRead = displayName(b) ) => selected = "false"

C36_SavedOnlyAfterPositiveProbe ==
    /\ [][ (saveCalls' # saveCalls \/ storedState' # storedState) =>
              /\ cmd = "login"
              /\ probe = "true" \/ loginSuccess = "true"
              /\ saveCalls' = saveCalls + 1 ]_vars
    /\ [][ (pc # "close" /\ pc' = "catch") =>
              /\ saveCalls' = 0
              /\ storedState' = "previous" ]_vars
    /\ [](cmd = "query" => saveCalls = 0 /\ storedState = "previous")

\* C36 witness: a login run whose confirmation failed has exited with the
\* stored state untouched
C36_Witness ==
    /\ pc = "exited"
    /\ cmd = "login"
    /\ loginSuccess = "false"
    /\ exitCode = 1
    /\ saveCalls = 0
    /\ storedState = "previous"

====
